---- MODULE Spec2Model ----
(***************************************************************************)
(* Judgement engine of the OsuPone rhythm game (class OsuGame of           *)
(* src/osu-data.js, with the timing derivations of OsuParser).             *)
(*                                                                         *)
(* Conventions of the model                                                *)
(*  - time is the audio transport position in integer milliseconds;        *)
(*  - positions are osu! playfield coordinates (canvasToOsu is an affine   *)
(*    bijection, the events carry the point already converted);            *)
(*  - JavaScript numbers that are not integers (slide duration, tick       *)
(*    spacing, ball position, radii) are exact rationals [n, d];           *)
(*  - difficulty scalars HP/CS/OD/AR and the tick rate are integers, the   *)
(*    slider multiplier is a rational;                                     *)
(*  - activeObjects holds 1-based indices into hitObjects (the code holds  *)
(*    references to the same records); nextObjectIndex is 0-based as in    *)
(*    the code;                                                            *)
(*  - hitFeedback, overlays and canvas drawing are display only and are    *)
(*    left out;                                                            *)
(*  - the pure functions of the parser and of the tempo resolver are       *)
(*    exercised on their own through args / result, outside any session.   *)
(***************************************************************************)
EXTENDS Integers, Sequences, FiniteSets, TLC

VARIABLES
    currentState,     \* GameState
    beatmap,          \* the parsed chart document, or NoBeatmap
    hitObjects,       \* per-session judgement records, sorted by time
    activeObjects,    \* indices of the objects on screen, oldest first
    nextObjectIndex,  \* activation cursor (0-based)
    stats,            \* score, combo, maxCombo, tier counts, health, failed
    audioTime,        \* audio.currentTime * 1000
    audioPlaying,     \* the audio element is playing
    endedListener,    \* an 'ended' listener of startPlaying is registered
    endTimer,         \* the grace timer is armed
    countdownTimer,   \* the countdown interval of startCountdown is running
    cursor,           \* cursorX / cursorY, in playfield coordinates
    mouseDown,
    keyDown,
    args,             \* the arguments of a call of a pure function, or NoCall
    result            \* the value the call returned, or NoCall

vars == <<currentState, beatmap, hitObjects, activeObjects, nextObjectIndex,
          stats, audioTime, audioPlaying, endedListener, endTimer,
          countdownTimer, cursor, mouseDown, keyDown, args, result>>

\* the variables of a play session
session == <<currentState, beatmap, hitObjects, activeObjects,
             nextObjectIndex, stats, audioTime, audioPlaying, endedListener,
             endTimer, countdownTimer, cursor, mouseDown, keyDown>>

----------------------------------------------------------------------------
(* Numeric primitives *)

Max(a, b) == IF a >= b THEN a ELSE b

Min(a, b) == IF a <= b THEN a ELSE b

Abs(a) == IF a < 0 THEN -a ELSE a

RECURSIVE GCD(_, _)
GCD(a, b) == IF b = 0 THEN a ELSE GCD(b, a % b)

\* the rational n/d in lowest terms, d > 0
Rat(n, d) ==
    LET s == IF d < 0 THEN -1 ELSE 1
        g == GCD(Abs(n), Abs(d))
    IN  [n |-> (s * n) \div g, d |-> (s * d) \div g]

RInt(k) == [n |-> k, d |-> 1]

RMul(a, b) == Rat(a.n * b.n, a.d * b.d)

RDiv(a, b) == Rat(a.n * b.d, a.d * b.n)

RSub(a, b) == Rat(a.n * b.d - b.n * a.d, a.d * b.d)

RLe(a, b) == a.n * b.d <= b.n * a.d

RLt(a, b) == a.n * b.d < b.n * a.d

RMin(a, b) == IF RLe(a, b) THEN a ELSE b

RMax(a, b) == IF RLe(b, a) THEN a ELSE b

\* Math.floor and Math.ceil (\div rounds towards minus infinity)
RFloor(a) == a.n \div a.d

RCeil(a) == -((-a.n) \div a.d)

----------------------------------------------------------------------------
(* GameState and HitState enumerations *)

GameState == {"SONG_SELECT", "MENU", "LOADING", "COUNTDOWN", "PLAYING",
              "PAUSED", "RESULTS"}

HitState == {"PENDING", "ACTIVE", "HIT_300", "HIT_100", "HIT_50", "MISS",
             "SLIDING"}

Resolved == {"HIT_300", "HIT_100", "HIT_50", "MISS"}

NoBeatmap == [id |-> "none"]

----------------------------------------------------------------------------
(* Timing / geometry derivation (OsuParser) *)

\* getApproachTime with the law of the low approach rates on every rate
getApproachTime_LowLaw(ar) == 1800 - ar * 120

getApproachTime(ar) ==
    IF ar < 5 THEN 1800 - ar * 120 ELSE 1200 - (ar - 5) * 150

getHitWindows(od) ==
    [hit300 |-> 80 - 6 * od, hit100 |-> 140 - 8 * od, hit50 |-> 200 - 10 * od]

\* 54.4 - 4.48 * cs, as a rational
getCircleRadius(cs) == Rat(5440 - 448 * cs, 100)

\* (length / (sliderMultiplier * 100)) * beatLength
getSliderDuration(length, beatLength, sliderMultiplier) ==
    RMul(RDiv(RInt(length), RMul(sliderMultiplier, RInt(100))), beatLength)

\* Math.hypot(dx, dy) <= radius * factor, for a point difference (dx, dy) / D
\* with integer dx, dy, D > 0.  Squares are compared; the right-hand side
\* is split as q = 125 a + b so that no intermediate exceeds 32 bits.
WithinDistance(dx, dy, D, radius, factor) ==
    LET lim == RMul(RMul(radius, factor), RInt(D))
        N   == dx * dx + dy * dy
        a   == lim.n \div lim.d
        r   == lim.n % lim.d
        \* floor(lim^2) = a^2 + floor((2 a r d + r^2) / d^2)
        fl  == a * a + ((2 * a * r * lim.d + r * r) \div (lim.d * lim.d))
    IN  N <= fl

----------------------------------------------------------------------------
(* Chart documents (the value of OsuParser.parse) used as inputs *)

\* length of the audio track of the charts, in ms (audioLength)
AudioDuration == 500

PA == <<100, 100>>

PB == <<300, 200>>

Points == {PA, PB}

Circle(p, t) ==
    [type |-> "circle", x |-> p[1], y |-> p[2], time |-> t,
     slides |-> 0, length |-> 0, curve |-> <<>>]

\* curve stands for the samples OsuParser.generateCurve returns for the
\* slider's control points
Slider(p, t, slides, length, curve) ==
    [type |-> "slider", x |-> p[1], y |-> p[2], time |-> t,
     slides |-> slides, length |-> length, curve |-> curve]

\* a straight path of the given length starting at PA
Straight(len) == <<PA, <<100 + len \div 2, 100>>, <<100 + len, 100>>>>

Difficulty(hp, cs, od, ar, sm, tr) ==
    [hpDrainRate |-> hp, circleSize |-> cs, overallDifficulty |-> od,
     approachRate |-> ar, sliderMultiplier |-> sm, sliderTickRate |-> tr]

Timing(ms) == <<[offset |-> 0, msPerBeat |-> ms, inherited |-> FALSE]>>

\* two circles at different places and a two-slide slider with one tick per
\* slide (slide duration 100 ms, tick spacing 50 ms); the hit windows are
\* 20 / 60 / 100 ms
MainChart ==
    [id |-> "main", audioLength |-> AudioDuration,
     difficulty |-> Difficulty(5, 4, 10, 10, Rat(4, 10), 1),
     timingPoints |-> Timing(50),
     hitObjects |-> << Circle(PA, 50), Circle(PB, 100),
                       Slider(PA, 200, 2, 80, Straight(80)) >>]

\* a one-slide slider with three ticks (slide duration 200 ms, tick spacing
\* 50 ms)
SliderChart ==
    [id |-> "sliders", audioLength |-> AudioDuration,
     difficulty |-> Difficulty(5, 4, 10, 10, Rat(4, 10), 2),
     timingPoints |-> Timing(100),
     hitObjects |-> << Slider(PA, 100, 1, 80, Straight(80)) >>]

\* fourteen simultaneous circles and a one-slide slider with one tick
DenseChart ==
    [id |-> "dense", audioLength |-> AudioDuration,
     difficulty |-> Difficulty(5, 4, 5, 10, Rat(4, 10), 1),
     timingPoints |-> Timing(50),
     hitObjects |-> [i \in 1..14 |-> Circle(PB, 100)]
                    \o << Slider(PA, 200, 1, 80, Straight(80)) >>]

\* three circles further apart than the approach time (450 ms): the second
\* becomes visible from 50 ms on, the third from 100 ms on
StaggerChart ==
    [id |-> "stagger", audioLength |-> AudioDuration,
     difficulty |-> Difficulty(5, 4, 10, 10, Rat(4, 10), 1),
     timingPoints |-> Timing(50),
     hitObjects |-> << Circle(PA, 50), Circle(PB, 500), Circle(PA, 550) >>]

\* one circle at 1000 ms with AR 9 and OD 8, on a track that outlasts it
ScenarioChart ==
    [id |-> "scenario", audioLength |-> AudioDuration + 700,
     difficulty |-> Difficulty(5, 4, 8, 9, Rat(4, 10), 1),
     timingPoints |-> Timing(50),
     hitObjects |-> << Circle(PA, 1000) >>]

\* one circle at 150 ms with OD 5 (hit windows 50 / 100 / 150 ms), visible
\* from the start
WindowChart ==
    [id |-> "windows", audioLength |-> AudioDuration - 200,
     difficulty |-> Difficulty(5, 4, 5, 10, Rat(4, 10), 1),
     timingPoints |-> Timing(50),
     hitObjects |-> << Circle(PA, 150) >>]

Charts == {MainChart, SliderChart}

TimeSteps == {50}

----------------------------------------------------------------------------
(* Session start: loadBeatmap, createEmptyStats *)

createEmptyStats ==
    [score |-> 0, combo |-> 0, maxCombo |-> 0, hit300 |-> 0, hit100 |-> 0,
     hit50 |-> 0, misses |-> 0, health |-> 100, failed |-> FALSE]

\* the loop of getBeatLengthAtTime from timing point i on; st = <<beatLength,
\* currentMultiplier>>
RECURSIVE BeatLengthScan(_, _, _, _)
BeatLengthScan(tps, i, time, st) ==
    IF i > Len(tps) \/ tps[i].offset > time
    THEN st
    ELSE BeatLengthScan(tps, i + 1, time,
            IF ~tps[i].inherited
            THEN <<RInt(tps[i].msPerBeat), st[2]>>
            ELSE <<st[1], Rat(-100, tps[i].msPerBeat)>>)

getBeatLengthAtTime(bm, time) ==
    LET st == BeatLengthScan(bm.timingPoints, 1, time, <<RInt(500), RInt(1)>>)
    IN  RDiv(st[1], st[2])

\* the slider record of loadBeatmap, given the derived slide duration and
\* per-slide tick count
sliderRecord(obj, slideDuration, ticksPerSlide) ==
    [type |-> "slider", x |-> obj.x, y |-> obj.y, time |-> obj.time,
     state |-> "PENDING",
     slides |-> obj.slides,
     curvePoints |-> obj.curve,
     slideDuration |-> slideDuration,
     totalDuration |-> RMul(slideDuration, RInt(obj.slides)),
     tracking |-> FALSE, trackingBroken |-> FALSE, ticksHit |-> 0,
     ticksPerSlide |-> ticksPerSlide,
     totalTicks |-> ticksPerSlide * obj.slides,
     tickSpacing |-> IF ticksPerSlide > 0
                     THEN RDiv(slideDuration, RInt(ticksPerSlide + 1))
                     ELSE RInt(0),
     endHit |-> FALSE]

\* a circle record has none of the slider fields in the code; here they are
\* present and never read
circleRecord(obj) ==
    [type |-> "circle", x |-> obj.x, y |-> obj.y, time |-> obj.time,
     state |-> "PENDING",
     slides |-> 0, curvePoints |-> <<>>,
     slideDuration |-> RInt(0), totalDuration |-> RInt(0),
     tracking |-> FALSE, trackingBroken |-> FALSE, ticksHit |-> 0,
     ticksPerSlide |-> 0, totalTicks |-> 0, tickSpacing |-> RInt(0),
     endHit |-> FALSE]

\* sliderTickRate || 1
tickRateOrOne(tr) == IF tr = 0 THEN 1 ELSE tr

\* Math.max(0, Math.ceil(beatsPerSlide * sliderTickRate) - 1)
ticksPerSlideOf(length, sliderMultiplier, sliderTickRate) ==
    Max(0, RCeil(RMul(RDiv(RInt(length), RMul(sliderMultiplier, RInt(100))),
                      RInt(tickRateOrOne(sliderTickRate)))) - 1)

\* the record loadBeatmap builds for one parsed object
loadBeatmapObject(bm, obj) ==
    IF obj.type = "slider"
    THEN sliderRecord(obj,
            getSliderDuration(obj.length, getBeatLengthAtTime(bm, obj.time),
                              bm.difficulty.sliderMultiplier),
            ticksPerSlideOf(obj.length, bm.difficulty.sliderMultiplier,
                            bm.difficulty.sliderTickRate))
    ELSE circleRecord(obj)

\* Array.prototype.sort by time (stable): insertion of seq[i] into the sorted
\* prefix
RECURSIVE InsertByTime(_, _)
InsertByTime(sorted, obj) ==
    IF sorted = <<>> THEN <<obj>>
    ELSE IF obj.time < sorted[Len(sorted)].time
         THEN Append(InsertByTime(SubSeq(sorted, 1, Len(sorted) - 1), obj),
                     sorted[Len(sorted)])
         ELSE Append(sorted, obj)

RECURSIVE SortByTime(_)
SortByTime(seq) ==
    IF seq = <<>> THEN <<>>
    ELSE InsertByTime(SortByTime(SubSeq(seq, 1, Len(seq) - 1)), seq[Len(seq)])

loadBeatmapObjects(bm) ==
    SortByTime([i \in 1..Len(bm.hitObjects) |->
                    loadBeatmapObject(bm, bm.hitObjects[i])])

----------------------------------------------------------------------------
(* Judgement operations.  g is the mutable session state they work on:      *)
(* [hitObjects, activeObjects, nextObjectIndex, stats].                     *)

isHoldingInput(md, kd) == md \/ kd

\* indexOf + splice: the first occurrence of i is removed
removeActiveObject_Keeps(active, i) == active

RECURSIVE removeActiveObject(_, _)
removeActiveObject(active, i) ==
    IF active = <<>> THEN <<>>
    ELSE IF Head(active) = i THEN Tail(active)
         ELSE <<Head(active)>> \o removeActiveObject(Tail(active), i)

\* Math.round((hp + cs + od) / 3)
getDifficultyMultiplier(bm) ==
    LET d == bm.difficulty
    IN  (2 * (d.hpDrainRate + d.circleSize + d.overallDifficulty) + 3) \div 6

\* startSlider awarding the whole tier at the head
startSlider_FullScore(g, i, startHitValue) ==
    [g EXCEPT !.hitObjects[i].state = "SLIDING",
              !.hitObjects[i].tracking = TRUE,
              !.hitObjects[i].trackingBroken = FALSE,
              !.stats.score = @ + (startHitValue),
              !.stats.combo = @ + 1,
              !.stats.maxCombo = Max(@, g.stats.combo + 1)]

startSlider(g, i, startHitValue) ==
    [g EXCEPT !.hitObjects[i].state = "SLIDING",
              !.hitObjects[i].tracking = TRUE,
              !.hitObjects[i].trackingBroken = FALSE,
              !.stats.score = @ + (startHitValue \div 3),
              !.stats.combo = @ + 1,
              !.stats.maxCombo = Max(@, g.stats.combo + 1)]

\* processHit without the upper clamp of the health
processHit_NoCap(g, bm, i, hitValue) ==
    LET combo == g.stats.combo + 1
    IN  [g EXCEPT !.stats.hit300 = IF hitValue = 300 THEN @ + 1 ELSE @,
                  !.stats.hit100 = IF hitValue = 100 THEN @ + 1 ELSE @,
                  !.stats.hit50 = IF hitValue \notin {300, 100} THEN @ + 1
                                  ELSE @,
                  !.stats.combo = combo,
                  !.stats.maxCombo = Max(@, combo),
                  !.stats.score = @ + hitValue
                     + ((hitValue * combo * getDifficultyMultiplier(bm))
                        \div 100),
                  !.stats.health = @ + (hitValue \div 50),
                  !.activeObjects = removeActiveObject(@, i)]

\* Math.floor(hitValue * combo * multiplier * 0.01) is the integer quotient
\* by 100: the double nearest 0.01 is above 1/100, so a product that is a
\* multiple of 100 never rounds below its quotient
processHit(g, bm, i, hitValue) ==
    LET combo == g.stats.combo + 1
    IN  [g EXCEPT !.stats.hit300 = IF hitValue = 300 THEN @ + 1 ELSE @,
                  !.stats.hit100 = IF hitValue = 100 THEN @ + 1 ELSE @,
                  !.stats.hit50 = IF hitValue \notin {300, 100} THEN @ + 1
                                  ELSE @,
                  !.stats.combo = combo,
                  !.stats.maxCombo = Max(@, combo),
                  !.stats.score = @ + hitValue
                     + ((hitValue * combo * getDifficultyMultiplier(bm))
                        \div 100),
                  !.stats.health = Min(100, @ + (hitValue \div 50)),
                  !.activeObjects = removeActiveObject(@, i)]

\* processMiss without the assignment of the MISS state
processMiss_KeepsState(g, i) ==
    [g EXCEPT !.stats.misses = @ + 1,
              !.stats.combo = 0,
              !.stats.health = Max(0, @ - 8),
              !.activeObjects = removeActiveObject(@, i)]

\* processMiss without the lower clamp of the health
processMiss_NoClamp(g, i) ==
    [g EXCEPT !.hitObjects[i].state = "MISS",
              !.stats.misses = @ + 1,
              !.stats.combo = 0,
              !.stats.health = @ - 8,
              !.activeObjects = removeActiveObject(@, i)]

processMiss(g, i) ==
    [g EXCEPT !.hitObjects[i].state = "MISS",
              !.stats.misses = @ + 1,
              !.stats.combo = 0,
              !.stats.health = Max(0, @ - 8),
              !.activeObjects = removeActiveObject(@, i)]

processSliderMiss(g, i) ==
    [g EXCEPT !.hitObjects[i].state = "MISS",
              !.stats.misses = @ + 1,
              !.stats.combo = 0,
              !.stats.health = Max(0, @ - 8),
              !.activeObjects = removeActiveObject(@, i)]

\* hitValueFor with exclusive window boundaries
hitValueFor_Exclusive(windows, hitOffset) ==
    IF Abs(hitOffset) < windows.hit300 THEN 300
    ELSE IF Abs(hitOffset) < windows.hit100 THEN 100
    ELSE 50

\* the tier of an input with the given offset from the object's time
hitValueFor(windows, hitOffset) ==
    IF Abs(hitOffset) <= windows.hit300 THEN 300
    ELSE IF Abs(hitOffset) <= windows.hit100 THEN 100
    ELSE 50

\* inputMatches without the hit-window test
inputMatches_AnyTime(g, bm, k, osuPos, currentTime) ==
    /\ g.hitObjects[g.activeObjects[k]].state = "ACTIVE"
    /\ WithinDistance(osuPos[1] - g.hitObjects[g.activeObjects[k]].x,
                      osuPos[2] - g.hitObjects[g.activeObjects[k]].y, 1,
                      getCircleRadius(bm.difficulty.circleSize), Rat(12, 10))

\* inputMatches without the distance test
inputMatches_AnyDistance(g, bm, k, osuPos, currentTime) ==
    /\ g.hitObjects[g.activeObjects[k]].state = "ACTIVE"
    /\ Abs(currentTime - g.hitObjects[g.activeObjects[k]].time)
          <= getHitWindows(bm.difficulty.overallDifficulty).hit50

\* the test of the loop body of processHitAtPosition for the entry k of
\* activeObjects
inputMatches(g, bm, k, osuPos, currentTime) ==
    /\ g.hitObjects[g.activeObjects[k]].state = "ACTIVE"
    /\ Abs(currentTime - g.hitObjects[g.activeObjects[k]].time)
          <= getHitWindows(bm.difficulty.overallDifficulty).hit50
    /\ WithinDistance(osuPos[1] - g.hitObjects[g.activeObjects[k]].x,
                      osuPos[2] - g.hitObjects[g.activeObjects[k]].y, 1,
                      getCircleRadius(bm.difficulty.circleSize), Rat(12, 10))

hitStateFor(hitValue) ==
    IF hitValue = 300 THEN "HIT_300"
    ELSE IF hitValue = 100 THEN "HIT_100"
    ELSE "HIT_50"

\* the branch of processHitAtPosition taken for the matched object i
hitObjectAt(g, bm, i, hitValue) ==
    IF g.hitObjects[i].type = "slider"
    THEN startSlider(g, i, hitValue)
    ELSE processHit([g EXCEPT !.hitObjects[i].state = hitStateFor(hitValue)],
                    bm, i, hitValue)

\* the loop of processHitAtPosition from entry k on
RECURSIVE hitLoop(_, _, _, _, _)
hitLoop(g, bm, k, osuPos, currentTime) ==
    IF k > Len(g.activeObjects) THEN g
    ELSE IF ~inputMatches(g, bm, k, osuPos, currentTime)
         THEN hitLoop(g, bm, k + 1, osuPos, currentTime)
         ELSE hitObjectAt(g, bm, g.activeObjects[k],
                 hitValueFor(getHitWindows(bm.difficulty.overallDifficulty),
                    currentTime - g.hitObjects[g.activeObjects[k]].time))

processHitAtPosition(g, bm, osuPos, currentTime) ==
    IF bm = NoBeatmap THEN g ELSE hitLoop(g, bm, 1, osuPos, currentTime)

----------------------------------------------------------------------------
(* Sliders *)

\* Math.max(0, Math.min(elapsed, slider.totalDuration))
clampElapsed(slider, elapsed) ==
    RMax(RInt(0), RMin(elapsed, slider.totalDuration))

\* getPassedSliderTicks from the computation of completedSlides on
passedTicksAfter(slider, clampedElapsed, completedSlides) ==
    Min(slider.totalTicks,
        completedSlides * slider.ticksPerSlide
        + (IF completedSlides < slider.slides
           THEN Min(slider.ticksPerSlide,
                    RFloor(RDiv(RSub(clampedElapsed,
                                     RMul(RInt(completedSlides),
                                          slider.slideDuration)),
                                slider.tickSpacing)))
           ELSE 0))

\* getPassedSliderTicks for an elapsed time already clamped by the caller
\* (the function clamps it again)
getPassedSliderTicks(slider, elapsed) ==
    IF slider.ticksPerSlide <= 0 \/ RLe(slider.tickSpacing, RInt(0))
    THEN 0
    ELSE passedTicksAfter(slider, clampElapsed(slider, elapsed),
            Min(slider.slides,
                RFloor(RDiv(clampElapsed(slider, elapsed),
                            slider.slideDuration))))

\* p1 + (p2 - p1) * t on both coordinates
lerpPoint(p1, p2, t) ==
    [x |-> RSub(RInt(p1[1]), RMul(RInt(p1[1] - p2[1]), t)),
     y |-> RSub(RInt(p1[2]), RMul(RInt(p1[2] - p2[2]), t))]

\* getSliderBallPosition from the computation of index and t on
ballAtIndex(slider, index, t) ==
    IF index >= Len(slider.curvePoints) - 1
    THEN [x |-> RInt(slider.curvePoints[Len(slider.curvePoints)][1]),
          y |-> RInt(slider.curvePoints[Len(slider.curvePoints)][2])]
    ELSE lerpPoint(slider.curvePoints[index + 1],
                   slider.curvePoints[index + 2], t)

\* getSliderBallPosition from exactIndex on
ballAtExactIndex(slider, exactIndex) ==
    ballAtIndex(slider, RFloor(exactIndex),
                RSub(exactIndex, RInt(RFloor(exactIndex))))

\* getSliderBallPosition from slideProgress and currentSlide on
ballAtProgress(slider, slideProgress, currentSlide) ==
    ballAtExactIndex(slider,
        RMul(RMax(RInt(0), RMin(RInt(1),
                IF currentSlide % 2 = 1
                THEN RSub(RInt(1), slideProgress)
                ELSE slideProgress)),
             RInt(Len(slider.curvePoints) - 1)))

\* getSliderBallPosition given currentSlide; elapsed % slideDuration is
\* elapsed - currentSlide * slideDuration for elapsed >= 0
ballInSlide(slider, elapsed, currentSlide) ==
    ballAtProgress(slider,
        RDiv(RSub(elapsed, RMul(RInt(currentSlide), slider.slideDuration)),
             slider.slideDuration),
        currentSlide)

\* the ball position as a pair of rationals
getSliderBallPosition(slider, elapsed) ==
    IF Len(slider.curvePoints) < 2
    THEN [x |-> RInt(slider.x), y |-> RInt(slider.y)]
    ELSE ballInSlide(slider, elapsed,
                     RFloor(RDiv(elapsed, slider.slideDuration)))

\* the final tier of completeSlider: tickRatio = ticksHit / maxTicks, or 1
\* when maxTicks is 0
sliderTier(slider, maxTicks) ==
    IF maxTicks = 0
    THEN IF ~slider.trackingBroken THEN 300 ELSE 100
    ELSE IF slider.ticksHit * 10 >= 9 * maxTicks /\ ~slider.trackingBroken
         THEN 300
         ELSE IF slider.ticksHit * 10 >= 5 * maxTicks THEN 100
         ELSE IF slider.ticksHit > 0 THEN 50
         ELSE 0

\* completeSlider from the choice of hitValue on
completeSliderAs(g, i, endBonus, hitValue) ==
    [g EXCEPT !.hitObjects[i].state = "HIT_300",
              !.hitObjects[i].endHit = IF endBonus THEN TRUE ELSE @,
              !.stats.score = IF endBonus THEN @ + 30 ELSE @,
              !.stats.hit300 = IF hitValue = 300 THEN @ + 1 ELSE @,
              !.stats.hit100 = IF hitValue = 100 THEN @ + 1 ELSE @,
              !.stats.hit50 = IF hitValue = 50 THEN @ + 1 ELSE @,
              !.stats.misses = IF hitValue = 0 THEN @ + 1 ELSE @,
              !.stats.combo = IF hitValue = 0 THEN 0 ELSE @,
              !.stats.health = IF hitValue > 0
                               THEN Min(100, @ + (hitValue \div 50))
                               ELSE Max(0, @ - 5),
              !.activeObjects = removeActiveObject(@, i)]

completeSlider(g, i) ==
    completeSliderAs(g, i,
        g.hitObjects[i].tracking /\ ~g.hitObjects[i].trackingBroken,
        sliderTier(g.hitObjects[i],
                   g.hitObjects[i].totalTicks * g.hitObjects[i].slides))

\* Math.hypot(osuPos - ballPos) <= followRadius
inFollowRadius(osuPos, ballPos, circleRadius) ==
    WithinDistance(
        osuPos[1] * ballPos.x.d * ballPos.y.d - ballPos.x.n * ballPos.y.d,
        osuPos[2] * ballPos.x.d * ballPos.y.d - ballPos.y.n * ballPos.x.d,
        ballPos.x.d * ballPos.y.d, circleRadius, Rat(24, 10))

\* checkTracking without the combo reset
checkTracking_KeepsCombo(g, i, ballPos, circleRadius, osuPos, holding) ==
    IF /\ g.hitObjects[i].tracking /\ ~g.hitObjects[i].trackingBroken
       /\ (~holding \/ ~inFollowRadius(osuPos, ballPos, circleRadius))
    THEN [g EXCEPT !.hitObjects[i].tracking = FALSE,
                   !.hitObjects[i].trackingBroken = TRUE]
    ELSE g

\* updateSliders, "Check if still tracking"
checkTracking(g, i, ballPos, circleRadius, osuPos, holding) ==
    IF /\ g.hitObjects[i].tracking /\ ~g.hitObjects[i].trackingBroken
       /\ (~holding \/ ~inFollowRadius(osuPos, ballPos, circleRadius))
    THEN [g EXCEPT !.hitObjects[i].tracking = FALSE,
                   !.hitObjects[i].trackingBroken = TRUE,
                   !.stats.combo = 0]
    ELSE g

\* updateSliders, "Award tick points", for newTicks > 0
awardTicks(g, i, newTicks) ==
    [g EXCEPT !.hitObjects[i].ticksHit = @ + newTicks,
              !.stats.score = @ + 10 * newTicks,
              !.stats.combo = @ + newTicks,
              !.stats.maxCombo = Max(@, g.stats.combo + newTicks),
              !.stats.health = Min(100, @ + newTicks)]

\* Math.max(0, Math.min(obj.totalTicks, passedTicks) - obj.ticksHit)
newTicksOf(obj, passedTicks) ==
    Max(0, Min(obj.totalTicks, passedTicks) - obj.ticksHit)

checkTicks(g, i, clampedElapsed) ==
    IF /\ g.hitObjects[i].tracking /\ ~g.hitObjects[i].trackingBroken
       /\ g.hitObjects[i].totalTicks > 0
       /\ newTicksOf(g.hitObjects[i],
             getPassedSliderTicks(g.hitObjects[i], clampedElapsed)) > 0
    THEN awardTicks(g, i,
            newTicksOf(g.hitObjects[i],
               getPassedSliderTicks(g.hitObjects[i], clampedElapsed)))
    ELSE g

\* updateSliders, "Check if slider is complete"
checkComplete(g, i, elapsed) ==
    IF RLe(g.hitObjects[i].totalDuration, elapsed)
    THEN completeSlider(g, i)
    ELSE g

\* the body of the loop of updateSliders for the object i in SLIDING state
updateSliderAt(g, i, elapsed, clampedElapsed, circleRadius, osuPos, holding) ==
    checkComplete(
        checkTicks(
            checkTracking(g, i,
                getSliderBallPosition(g.hitObjects[i], clampedElapsed),
                circleRadius, osuPos, holding),
            i, clampedElapsed),
        i, elapsed)

updateSlider(g, i, currentTime, circleRadius, osuPos, holding) ==
    updateSliderAt(g, i, RInt(currentTime - g.hitObjects[i].time),
        clampElapsed(g.hitObjects[i],
                     RInt(currentTime - g.hitObjects[i].time)),
        circleRadius, osuPos, holding)

\* the loop of updateSliders from entry k of activeObjects down to the first
RECURSIVE updateSlidersFrom(_, _, _, _, _, _)
updateSlidersFrom(g, k, currentTime, circleRadius, osuPos, holding) ==
    IF k < 1 THEN g
    ELSE updateSlidersFrom(
            IF g.hitObjects[g.activeObjects[k]].state # "SLIDING" THEN g
            ELSE updateSlider(g, g.activeObjects[k], currentTime,
                              circleRadius, osuPos, holding),
            k - 1, currentTime, circleRadius, osuPos, holding)

updateSliders(g, currentTime, circleRadius, osuPos, holding) ==
    updateSlidersFrom(g, Len(g.activeObjects), currentTime, circleRadius,
                      osuPos, holding)

----------------------------------------------------------------------------
(* The update step *)

\* the activation loop with < in place of <=
RECURSIVE activateLoop_Strict(_, _, _)
activateLoop_Strict(g, currentTime, approachTime) ==
    IF g.nextObjectIndex >= Len(g.hitObjects) THEN g
    ELSE IF g.hitObjects[g.nextObjectIndex + 1].state # "PENDING"
    THEN activateLoop_Strict([g EXCEPT !.nextObjectIndex = @ + 1],
                             currentTime, approachTime)
    ELSE IF g.hitObjects[g.nextObjectIndex + 1].time - currentTime
               < approachTime
    THEN activateLoop_Strict(
            [g EXCEPT !.hitObjects[g.nextObjectIndex + 1].state = "ACTIVE",
                      !.activeObjects = Append(@, g.nextObjectIndex + 1),
                      !.nextObjectIndex = @ + 1],
            currentTime, approachTime)
    ELSE g

\* the activation loop of update
RECURSIVE activateLoop(_, _, _)
activateLoop(g, currentTime, approachTime) ==
    IF g.nextObjectIndex >= Len(g.hitObjects) THEN g
    ELSE IF g.hitObjects[g.nextObjectIndex + 1].state # "PENDING"
    THEN activateLoop([g EXCEPT !.nextObjectIndex = @ + 1],
                      currentTime, approachTime)
    ELSE IF g.hitObjects[g.nextObjectIndex + 1].time - currentTime
               <= approachTime
    THEN activateLoop(
            [g EXCEPT !.hitObjects[g.nextObjectIndex + 1].state = "ACTIVE",
                      !.activeObjects = Append(@, g.nextObjectIndex + 1),
                      !.nextObjectIndex = @ + 1],
            currentTime, approachTime)
    ELSE g

\* checkMiss timing out at the end of the hit window instead of after it
checkMiss_AtDeadline(g, i, currentTime, hitWindows) ==
    IF g.hitObjects[i].state = "ACTIVE"
       /\ currentTime >= g.hitObjects[i].time + hitWindows.hit50
    THEN IF g.hitObjects[i].type = "slider" THEN processSliderMiss(g, i)
         ELSE processMiss(g, i)
    ELSE g

\* the body of the miss loop of update for the object i
checkMiss(g, i, currentTime, hitWindows) ==
    IF g.hitObjects[i].state = "ACTIVE"
       /\ currentTime > g.hitObjects[i].time + hitWindows.hit50
    THEN IF g.hitObjects[i].type = "slider" THEN processSliderMiss(g, i)
         ELSE processMiss(g, i)
    ELSE g

\* the miss loop of update from entry k of activeObjects down to the first
RECURSIVE missLoop(_, _, _, _)
missLoop(g, k, currentTime, hitWindows) ==
    IF k < 1 THEN g
    ELSE missLoop(checkMiss(g, g.activeObjects[k], currentTime, hitWindows),
                  k - 1, currentTime, hitWindows)

\* update up to the miss loop
updateMisses(g, bm, currentTime) ==
    missLoop(activateLoop(g, currentTime,
                          getApproachTime(bm.difficulty.approachRate)),
             Len(activateLoop(g, currentTime,
                    getApproachTime(bm.difficulty.approachRate)).activeObjects),
             currentTime, getHitWindows(bm.difficulty.overallDifficulty))

\* update up to and including updateSliders
updateObjects(g, bm, currentTime, osuPos, holding) ==
    updateSliders(updateMisses(g, bm, currentTime), currentTime,
                  getCircleRadius(bm.difficulty.circleSize), osuPos, holding)

G == [hitObjects |-> hitObjects, activeObjects |-> activeObjects,
      nextObjectIndex |-> nextObjectIndex, stats |-> stats]

SetG(g) ==
    /\ hitObjects' = g.hitObjects
    /\ activeObjects' = g.activeObjects
    /\ nextObjectIndex' = g.nextObjectIndex
    /\ stats' = g.stats

\* the end timer that is never armed
endTimerAfter_Never(g) == endTimer

\* the end-of-song check: the end timer after update, given the outcome g of
\* updateObjects
endTimerAfter(g) ==
    IF /\ g.nextObjectIndex >= Len(g.hitObjects)
       /\ Len(g.activeObjects) = 0
       /\ Len(g.hitObjects) > 0
       /\ audioTime > 0
    THEN TRUE ELSE endTimer

\* update after updateSliders: the failure check and the end-of-song check
updateEnd(g) ==
    IF g.stats.health <= 0 /\ ~g.stats.failed
    THEN \* failure: audio.pause(), showResults()
         /\ SetG([g EXCEPT !.stats.failed = TRUE])
         /\ audioPlaying' = FALSE
         /\ currentState' = "RESULTS"
         /\ UNCHANGED endTimer
    ELSE /\ SetG(g)
         /\ endTimer' = endTimerAfter(g)
         /\ UNCHANGED <<audioPlaying, currentState>>

\* gameLoop in the PLAYING state: one update (frames in the other states
\* only draw)
update ==
    /\ currentState = "PLAYING"
    /\ beatmap # NoBeatmap
    /\ updateEnd(updateObjects(G, beatmap, audioTime, cursor,
                               isHoldingInput(mouseDown, keyDown)))
    /\ UNCHANGED <<beatmap, audioTime, endedListener, countdownTimer, cursor,
                   mouseDown, keyDown>>
    /\ UNCHANGED <<args, result>>

\* the timeout callback armed by update
endTimerFire ==
    /\ endTimer
    /\ endTimer' = FALSE
    /\ currentState' = IF currentState = "PLAYING" THEN "RESULTS"
                       ELSE currentState
    /\ UNCHANGED <<beatmap, hitObjects, activeObjects, nextObjectIndex, stats,
                   audioTime, audioPlaying, endedListener, countdownTimer,
                   cursor, mouseDown, keyDown>>
    /\ UNCHANGED <<args, result>>

-----
(* Session management *)

startCountdown_KeepsTimer ==
    /\ UNCHANGED endTimer
    /\ stats' = createEmptyStats
    /\ hitObjects' = [i \in 1..Len(hitObjects) |->
                        [hitObjects[i] EXCEPT !.state = "PENDING"]]
    /\ activeObjects' = <<>>
    /\ nextObjectIndex' = 0
    /\ currentState' = "COUNTDOWN"
    /\ countdownTimer' = TRUE

\* the assignments of startCountdown
startCountdown ==
    /\ endTimer' = FALSE
    /\ stats' = createEmptyStats
    /\ hitObjects' = [i \in 1..Len(hitObjects) |->
                        [hitObjects[i] EXCEPT !.state = "PENDING"]]
    /\ activeObjects' = <<>>
    /\ nextObjectIndex' = 0
    /\ currentState' = "COUNTDOWN"
    /\ countdownTimer' = TRUE

\* selectDifficulty: loadBeatmap, loadAudio (a new audio element), then
\* startCountdown
selectDifficulty(bm) ==
    /\ currentState = "SONG_SELECT"
    /\ beatmap' = bm
    /\ endTimer' = FALSE
    /\ stats' = createEmptyStats
    /\ hitObjects' = loadBeatmapObjects(bm)
    /\ activeObjects' = <<>>
    /\ nextObjectIndex' = 0
    /\ currentState' = "COUNTDOWN"
    /\ countdownTimer' = TRUE
    /\ audioTime' = 0
    /\ audioPlaying' = FALSE
    /\ endedListener' = FALSE
    /\ UNCHANGED <<cursor, mouseDown, keyDown>>
    /\ UNCHANGED <<args, result>>

\* the last firing of the countdown interval: startPlaying
startPlaying ==
    /\ countdownTimer
    /\ countdownTimer' = FALSE
    /\ currentState' = "PLAYING"
    /\ audioTime' = 0
    /\ audioPlaying' = TRUE
    /\ endedListener' = TRUE
    /\ UNCHANGED <<beatmap, hitObjects, activeObjects, nextObjectIndex, stats,
                   endTimer, cursor, mouseDown, keyDown>>
    /\ UNCHANGED <<args, result>>

pauseGame ==
    /\ currentState = "PLAYING"
    /\ currentState' = "PAUSED"
    /\ audioPlaying' = FALSE
    /\ UNCHANGED <<beatmap, hitObjects, activeObjects, nextObjectIndex, stats,
                   audioTime, endedListener, endTimer, countdownTimer, cursor,
                   mouseDown, keyDown>>
    /\ UNCHANGED <<args, result>>

resumeGame ==
    /\ currentState = "PAUSED"
    /\ currentState' = "PLAYING"
    /\ audioPlaying' = TRUE
    /\ UNCHANGED <<beatmap, hitObjects, activeObjects, nextObjectIndex, stats,
                   audioTime, endedListener, endTimer, countdownTimer, cursor,
                   mouseDown, keyDown>>
    /\ UNCHANGED <<args, result>>

\* the Retry button of the pause overlay
retryGame ==
    /\ currentState = "PAUSED"
    /\ audioPlaying' = FALSE
    /\ audioTime' = 0
    /\ startCountdown
    /\ UNCHANGED <<beatmap, endedListener, cursor, mouseDown, keyDown>>
    /\ UNCHANGED <<args, result>>

\* the fields of the payload of sendResultsAndClose that come from the stats
resultPayload(st) ==
    [maxCombo |-> st.maxCombo, hit300 |-> st.hit300, hit100 |-> st.hit100,
     hit50 |-> st.hit50, misses |-> st.misses,
     fullCombo |-> st.misses = 0 /\ ~st.failed,
     failed |-> st.failed]

\* the Quit button of the pause overlay, and the Continue button of the
\* results overlay (sendResultsAndClose ends in quitToMenu)
quitToMenu ==
    /\ currentState \in {"PAUSED", "RESULTS"}
    /\ endTimer' = FALSE
    /\ currentState' = "SONG_SELECT"
    /\ audioPlaying' = FALSE
    /\ audioTime' = 0
    /\ UNCHANGED <<beatmap, hitObjects, activeObjects, nextObjectIndex, stats,
                   endedListener, countdownTimer, cursor, mouseDown, keyDown>>
    /\ UNCHANGED <<args, result>>

----------------------------------------------------------------------------
(* The audio transport *)

audioAdvance(dt) ==
    /\ audioPlaying
    /\ audioTime < beatmap.audioLength
    /\ audioTime' = Min(audioTime + dt, beatmap.audioLength)
    /\ UNCHANGED <<currentState, beatmap, hitObjects, activeObjects,
                   nextObjectIndex, stats, audioPlaying, endedListener,
                   endTimer, countdownTimer, cursor, mouseDown, keyDown>>
    /\ UNCHANGED <<args, result>>

\* the track reaches its end: the 'ended' listeners of startPlaying run once
audioEnded ==
    /\ audioPlaying
    /\ audioTime = beatmap.audioLength
    /\ audioPlaying' = FALSE
    /\ endedListener' = FALSE
    /\ currentState' = IF endedListener /\ currentState = "PLAYING"
                       THEN "RESULTS" ELSE currentState
    /\ UNCHANGED <<beatmap, hitObjects, activeObjects, nextObjectIndex, stats,
                   audioTime, endTimer, countdownTimer, cursor, mouseDown,
                   keyDown>>
    /\ UNCHANGED <<args, result>>

----------------------------------------------------------------------------
(* Input events *)

mouseDownAt_AlsoPaused(p) ==
    /\ mouseDown' = TRUE
    /\ IF currentState \in {"PLAYING", "PAUSED"}
       THEN SetG(processHitAtPosition(G, beatmap, p, audioTime))
       ELSE UNCHANGED <<hitObjects, activeObjects, nextObjectIndex, stats>>
    /\ UNCHANGED <<currentState, beatmap, audioTime, audioPlaying,
                   endedListener, endTimer, countdownTimer, cursor, keyDown>>
    /\ UNCHANGED <<args, result>>

\* mousedown, or touchstart with one touch: handleClick / handleTouch
mouseDownAt(p) ==
    /\ mouseDown' = TRUE
    /\ IF currentState = "PLAYING"
       THEN SetG(processHitAtPosition(G, beatmap, p, audioTime))
       ELSE UNCHANGED <<hitObjects, activeObjects, nextObjectIndex, stats>>
    /\ UNCHANGED <<currentState, beatmap, audioTime, audioPlaying,
                   endedListener, endTimer, countdownTimer, cursor, keyDown>>
    /\ UNCHANGED <<args, result>>

\* mouseup, mouseleave, touchend of the last touch
mouseUp ==
    /\ mouseDown
    /\ mouseDown' = FALSE
    /\ UNCHANGED <<currentState, beatmap, hitObjects, activeObjects,
                   nextObjectIndex, stats, audioTime, audioPlaying,
                   endedListener, endTimer, countdownTimer, cursor, keyDown>>
    /\ UNCHANGED <<args, result>>

\* mousemove, touchmove
mouseMove(p) ==
    /\ cursor # p
    /\ cursor' = p
    /\ UNCHANGED <<currentState, beatmap, hitObjects, activeObjects,
                   nextObjectIndex, stats, audioTime, audioPlaying,
                   endedListener, endTimer, countdownTimer, mouseDown,
                   keyDown>>
    /\ UNCHANGED <<args, result>>

\* handleKeydown for z, x or space
handleKeydown ==
    /\ currentState = "PLAYING"
    /\ keyDown' = TRUE
    /\ SetG(processHitAtPosition(G, beatmap, cursor, audioTime))
    /\ UNCHANGED <<currentState, beatmap, audioTime, audioPlaying,
                   endedListener, endTimer, countdownTimer, cursor, mouseDown>>
    /\ UNCHANGED <<args, result>>

handleKeyup ==
    /\ keyDown
    /\ keyDown' = FALSE
    /\ UNCHANGED <<currentState, beatmap, hitObjects, activeObjects,
                   nextObjectIndex, stats, audioTime, audioPlaying,
                   endedListener, endTimer, countdownTimer, cursor, mouseDown>>
    /\ UNCHANGED <<args, result>>

----------------------------------------------------------------------------
(* Specifications *)

\* the cursor position of a fresh page, away from every object
Origin == <<0, 0>>

\* no call of a pure function
NoCall == [fn |-> "none"]

\* the state after construction of the OsuGame object
SessionInit ==
    /\ currentState = "SONG_SELECT"
    /\ beatmap = NoBeatmap
    /\ hitObjects = <<>>
    /\ activeObjects = <<>>
    /\ nextObjectIndex = 0
    /\ stats = createEmptyStats
    /\ audioTime = 0
    /\ audioPlaying = FALSE
    /\ endedListener = FALSE
    /\ endTimer = FALSE
    /\ countdownTimer = FALSE
    /\ cursor = Origin
    /\ mouseDown = FALSE
    /\ keyDown = FALSE

Init ==
    /\ SessionInit
    /\ args = NoCall
    /\ result = NoCall

\* the steps of a session over the given charts with pointer events at the
\* given points
NextOn(charts, points) ==
    \/ \E bm \in charts : selectDifficulty(bm)
    \/ startPlaying
    \/ update
    \/ endTimerFire
    \/ pauseGame
    \/ resumeGame
    \/ retryGame
    \/ quitToMenu
    \/ \E dt \in TimeSteps : audioAdvance(dt)
    \/ audioEnded
    \/ \E p \in points : mouseDownAt(p)
    \/ mouseUp
    \/ \E p \in points : mouseMove(p)
    \/ handleKeydown
    \/ handleKeyup

Next == NextOn(Charts, Points)

Spec == Init /\ [][Next]_vars

\* sessions on the dense chart, played at the slider only
NextDense == NextOn({DenseChart}, {PA})

SpecDense == Init /\ [][NextDense]_vars

\* sessions on charts whose objects become visible one after the other
NextApproach == NextOn({StaggerChart, ScenarioChart}, Points)

SpecApproach == Init /\ [][NextApproach]_vars

\* sessions on the slider chart, played at its head
NextGrace == NextOn({SliderChart}, {PA})

\* update changes the session when it runs on g, the outcome of
\* updateObjects in the current state: it ends a failed session, it changed
\* an object or a statistic, or it arms the end timer
updateChangesFrom(g) ==
    \/ g.stats.health <= 0 /\ ~g.stats.failed
    \/ g # G
    \/ endTimerAfter(g) # endTimer

\* ENABLED <<update>>_vars, computed from the one outcome update has
UpdateChanges ==
    /\ currentState = "PLAYING"
    /\ beatmap # NoBeatmap
    /\ updateChangesFrom(updateObjects(G, beatmap, audioTime, cursor,
                                       isHoldingInput(mouseDown, keyDown)))

\* weak fairness of update, with its enabling condition written out
WFupdate == []<>(~UpdateChanges) \/ []<><<update>>_vars

\* the browser's scheduling: the frame loop keeps calling update
\* (requestAnimationFrame), the track keeps advancing while it plays, and
\* the timeout of the end timer is delivered
Scheduling ==
    /\ WFupdate
    /\ WF_vars(\E dt \in TimeSteps : audioAdvance(dt))
    /\ WF_vars(endTimerFire)

SpecGrace == Init /\ [][NextGrace]_vars /\ Scheduling

\* sessions on the hit-window chart, the track read at every millisecond
NextWindows ==
    \/ NextOn({WindowChart}, {PA})
    \/ audioAdvance(1)

SpecWindows == Init /\ [][NextWindows]_vars

\* sessions on the one-circle chart, the track read at every 10 ms
NextScenario ==
    \/ NextOn({ScenarioChart}, {PA})
    \/ audioAdvance(10)

SpecScenario == Init /\ [][NextScenario]_vars

----------------------------------------------------------------------------
(* Calls of getBeatLengthAtTime on timing point lists in any file order *)

\* longest timing point list of a call
MaxTimingPoints == 3

\* a timing point as parseTimingPoints builds it: a negative raw value makes
\* the point inherited
TimingPoint(offset, msPerBeat) ==
    [offset |-> offset, msPerBeat |-> msPerBeat, inherited |-> msPerBeat < 0]

TimingPointSet ==
    {TimingPoint(o, v) : o \in {0, 1000, 2000}, v \in {500, 400, -50}}

\* the lists of at most n timing points, in any order of their offsets
RECURSIVE TimingLists(_)
TimingLists(n) ==
    IF n = 0 THEN {<< >>}
    ELSE TimingLists(n - 1)
         \cup {Append(l, tp) : l \in {m \in TimingLists(n - 1) :
                                          Len(m) = n - 1},
                               tp \in TimingPointSet}

TempoCalls ==
    {[fn |-> "getBeatLengthAtTime", timingPoints |-> l, time |-> t] :
        l \in TimingLists(MaxTimingPoints), t \in {500, 1500, 2500}}

InitTempo ==
    /\ SessionInit
    /\ args \in TempoCalls
    /\ result = NoCall

\* this.getBeatLengthAtTime(time) on a beatmap with the timing points of the
\* call
callGetBeatLengthAtTime ==
    /\ args.fn = "getBeatLengthAtTime"
    /\ result = NoCall
    /\ result' = [fn |-> "getBeatLengthAtTime",
                  value |-> getBeatLengthAtTime(
                               [timingPoints |-> args.timingPoints],
                               args.time)]
    /\ UNCHANGED <<session, args>>

NextTempo == callGetBeatLengthAtTime

SpecTempo == InitTempo /\ [][NextTempo]_vars

----------------------------------------------------------------------------
(* Results: calculateAccuracy, calculateGrade *)

\* hit300 + hit100 + hit50 + misses
judgedTotal(st) == st.hit300 + st.hit100 + st.hit50 + st.misses

calculateAccuracy(st) ==
    IF judgedTotal(st) = 0 THEN RInt(100)
    ELSE RMul(Rat(st.hit300 * 300 + st.hit100 * 100 + st.hit50 * 50,
                  judgedTotal(st) * 300),
              RInt(100))

\* calculateGrade after the test of total = 0.  The quotients are compared
\* exactly: for the totals of the model no quotient lies between a threshold
\* and the double that stands for it.
gradeOf(st, accuracy, ratio300, ratio50) ==
    IF accuracy = RInt(100) THEN "S"
    ELSE IF RLt(Rat(9, 10), ratio300) /\ RLt(ratio50, Rat(1, 100))
            /\ st.misses = 0 THEN "S"
    ELSE IF (RLt(Rat(8, 10), ratio300) /\ st.misses = 0)
            \/ RLt(Rat(9, 10), ratio300) THEN "A"
    ELSE IF (RLt(Rat(7, 10), ratio300) /\ st.misses = 0)
            \/ RLt(Rat(8, 10), ratio300) THEN "B"
    ELSE IF RLt(Rat(6, 10), ratio300) THEN "C"
    ELSE "D"

calculateGrade(st) ==
    IF judgedTotal(st) = 0 THEN "D"
    ELSE gradeOf(st, calculateAccuracy(st),
                 Rat(st.hit300, judgedTotal(st)),
                 Rat(st.hit50, judgedTotal(st)))

----------------------------------------------------------------------------
(* OsuParser: the key/value sections General, Metadata and Difficulty *)

\* A text is a sequence of pieces: ":" is the colon, " " a blank, and every
\* other piece (a key such as "Title", a letter, a digit) holds neither.

\* String.prototype.indexOf: the first position of the piece c, 0 if none
\* (one more than the index JavaScript counts from 0)
RECURSIVE IndexFrom(_, _, _)
IndexFrom(t, c, k) ==
    IF k > Len(t) THEN 0
    ELSE IF t[k] = c THEN k
    ELSE IndexFrom(t, c, k + 1)

IndexOf(t, c) == IndexFrom(t, c, 1)

RECURSIVE TrimStart(_)
TrimStart(t) ==
    IF Len(t) > 0 /\ t[1] = " " THEN TrimStart(Tail(t)) ELSE t

RECURSIVE TrimEnd(_)
TrimEnd(t) ==
    IF Len(t) > 0 /\ t[Len(t)] = " "
    THEN TrimEnd(SubSeq(t, 1, Len(t) - 1)) ELSE t

\* String.prototype.trim
Trim(t) == TrimEnd(TrimStart(t))

\* the text before the colon at position c
Before(t, c) == SubSeq(t, 1, c - 1)

\* the text after the colon at position c
After(t, c) == SubSeq(t, c + 1, Len(t))

\* the first element of t.split(':'): the text before the first colon, the
\* whole text when it has none
firstPart(t, c) == IF c = 0 THEN t ELSE Before(t, c)

\* const [key, value] = line.split(':').map(s => s.trim()), the colon of the
\* line at position c (0: no colon, value is undefined)
splitKeyValue(line, c) ==
    [key |-> Trim(firstPart(line, c)),
     defined |-> c # 0,
     value |-> IF c = 0 THEN << >>
               ELSE Trim(firstPart(After(line, c),
                                   IndexOf(After(line, c), ":")))]

\* key = line.slice(0, colonIndex).trim(), value = line.slice(colonIndex +
\* 1).trim(), the first colon of the line at position c > 0
sliceKeyValue(line, c) ==
    [key |-> Trim(Before(line, c)), defined |-> TRUE,
     value |-> Trim(After(line, c))]

\* an object used as a map from keys to values: the assignments in the order
\* they were made
NoEntries == << >>

setEntry(map, key, value) == Append(map, [key |-> key, value |-> value])

\* the position of the last assignment to the key, 0 if none
RECURSIVE entryIndex(_, _, _)
entryIndex(map, key, k) ==
    IF k = 0 THEN 0
    ELSE IF map[k].key = key THEN k
    ELSE entryIndex(map, key, k - 1)

hasEntry(map, key) == entryIndex(map, key, Len(map)) # 0

\* the loop of parseGeneral: general[key] = value if key is not empty and
\* value is not undefined
RECURSIVE generalEntries(_, _, _)
generalEntries(lines, k, map) ==
    IF k > Len(lines) THEN map
    ELSE generalEntries(lines, k + 1,
            IF /\ splitKeyValue(lines[k], IndexOf(lines[k], ":")).key # << >>
               /\ splitKeyValue(lines[k], IndexOf(lines[k], ":")).defined
            THEN setEntry(map,
                    splitKeyValue(lines[k], IndexOf(lines[k], ":")).key,
                    splitKeyValue(lines[k], IndexOf(lines[k], ":")).value)
            ELSE map)

\* the loop of parseMetadata: metadata[key] = value if the line has a colon
RECURSIVE metadataEntries(_, _, _)
metadataEntries(lines, k, map) ==
    IF k > Len(lines) THEN map
    ELSE metadataEntries(lines, k + 1,
            IF IndexOf(lines[k], ":") # 0
            THEN setEntry(map,
                    sliceKeyValue(lines[k], IndexOf(lines[k], ":")).key,
                    sliceKeyValue(lines[k], IndexOf(lines[k], ":")).value)
            ELSE map)

\* map[key] || fallback for texts: the fallback replaces undefined and ''
textOr(map, key, fallback) ==
    IF ~hasEntry(map, key) THEN fallback
    ELSE IF map[entryIndex(map, key, Len(map))].value = << >> THEN fallback
    ELSE map[entryIndex(map, key, Len(map))].value

Digits == {"0", "7"}

DigitValue(d) == IF d = "7" THEN 7 ELSE 0

\* parseInt / parseFloat on a text of digits, letters and blanks: the number
\* its leading digits spell after the leading blanks, NaN if there is none
RECURSIVE digitsValue(_, _, _)
digitsValue(t, k, acc) ==
    IF k > Len(t) \/ t[k] \notin Digits THEN acc
    ELSE digitsValue(t, k + 1, 10 * acc + DigitValue(t[k]))

NotANumber == [nan |-> TRUE, value |-> 0]

parseFloat(t) ==
    IF Len(TrimStart(t)) = 0 \/ TrimStart(t)[1] \notin Digits
    THEN NotANumber
    ELSE [nan |-> FALSE, value |-> digitsValue(TrimStart(t), 1, 0)]

\* parseInt(map[key]) || fallback: parseInt(undefined) is NaN
intOr(map, key, fallback) ==
    IF ~hasEntry(map, key) THEN fallback
    ELSE IF parseFloat(map[entryIndex(map, key, Len(map))].value).nan
            \/ parseFloat(map[entryIndex(map, key, Len(map))].value).value
                  = 0
    THEN fallback
    ELSE parseFloat(map[entryIndex(map, key, Len(map))].value).value

generalOf(map) ==
    [audioFilename |-> textOr(map, <<"AudioFilename">>, << >>),
     audioLeadIn |-> intOr(map, <<"AudioLeadIn">>, 0),
     previewTime |-> intOr(map, <<"PreviewTime">>, 0),
     mode |-> intOr(map, <<"Mode">>, 0)]

parseGeneral(lines) == generalOf(generalEntries(lines, 1, NoEntries))

metadataOf(map) ==
    [title |-> textOr(map, <<"Title">>, <<"Unknown">>),
     artist |-> textOr(map, <<"Artist">>, <<"Unknown">>),
     creator |-> textOr(map, <<"Creator">>, <<"Unknown">>),
     version |-> textOr(map, <<"Version">>, <<"Normal">>),
     tags |-> textOr(map, <<"Tags">>, << >>)]

parseMetadata(lines) == metadataOf(metadataEntries(lines, 1, NoEntries))

\* the loop of parseDifficulty: difficulty[key] = parseFloat(value) if key is
\* not empty and value is not undefined
RECURSIVE difficultyEntries(_, _, _)
difficultyEntries(lines, k, map) ==
    IF k > Len(lines) THEN map
    ELSE difficultyEntries(lines, k + 1,
            IF /\ splitKeyValue(lines[k], IndexOf(lines[k], ":")).key # << >>
               /\ splitKeyValue(lines[k], IndexOf(lines[k], ":")).defined
            THEN setEntry(map,
                    splitKeyValue(lines[k], IndexOf(lines[k], ":")).key,
                    parseFloat(
                       splitKeyValue(lines[k],
                                     IndexOf(lines[k], ":")).value))
            ELSE map)

\* map[key] is falsy: undefined, NaN or 0
falsyNumber(map, key) ==
    \/ ~hasEntry(map, key)
    \/ map[entryIndex(map, key, Len(map))].value.nan
    \/ map[entryIndex(map, key, Len(map))].value.value = 0

\* map[key] || fallback for numbers
numberOr(map, key, fallback) ==
    IF falsyNumber(map, key) THEN fallback
    ELSE map[entryIndex(map, key, Len(map))].value.value

difficultyOf(map) ==
    [hpDrainRate |-> numberOr(map, <<"HPDrainRate">>, 5),
     circleSize |-> numberOr(map, <<"CircleSize">>, 4),
     overallDifficulty |-> numberOr(map, <<"OverallDifficulty">>, 5),
     approachRate |->
        numberOr(map, <<"ApproachRate">>,
                 numberOr(map, <<"OverallDifficulty">>, 5)),
     sliderMultiplier |->
        IF falsyNumber(map, <<"SliderMultiplier">>) THEN Rat(14, 10)
        ELSE RInt(numberOr(map, <<"SliderMultiplier">>, 0)),
     sliderTickRate |-> numberOr(map, <<"SliderTickRate">>, 1)]

parseDifficulty(lines) ==
    difficultyOf(difficultyEntries(lines, 1, NoEntries))

----------------------------------------------------------------------------
(* OsuParser.parseHitObjects: object kinds and combo numbering *)

\* (type >> k) & 1
TypeBit(type, k) == (type \div (2 ^ k)) % 2

\* a hit-object line: its comma-separated fields x, y, time, type (parts is
\* the number of fields of the line)
HitObjectLine(type, parts) ==
    [x |-> 100, y |-> 100, time |-> 0, type |-> type, parts |-> parts]

\* the object pushed for a line that is a circle or a slider (the curve
\* fields of a slider are left out)
parsedObject(line, kind, isNewCombo, comboNumber, comboColorIndex) ==
    [x |-> line.x, y |-> line.y, time |-> line.time, type |-> kind,
     isNewCombo |-> isNewCombo, comboNumber |-> comboNumber,
     comboColorIndex |-> comboColorIndex]

\* the two pushes of the loop body, with the combo values of the line
pushParsed(out, line, isNewCombo, comboNumber, comboColorIndex) ==
    IF TypeBit(line.type, 1) = 1
    THEN Append(out, parsedObject(line, "slider", isNewCombo, comboNumber,
                                  comboColorIndex))
    ELSE IF TypeBit(line.type, 0) = 1
    THEN Append(out, parsedObject(line, "circle", isNewCombo, comboNumber,
                                  comboColorIndex))
    ELSE out

\* comboColorIndex after a line: (index + 1 + comboSkip) % count on a new
\* combo, comboSkip = (type >> 4) & 7
nextColorIndex(type, comboColorIndex, safeComboColorCount) ==
    IF TypeBit(type, 2) = 1
    THEN (comboColorIndex + 1 + ((type \div 16) % 8)) % safeComboColorCount
    ELSE comboColorIndex

\* comboNumber after a line
nextComboNumber(type, comboNumber) ==
    IF TypeBit(type, 2) = 1 THEN 1 ELSE comboNumber + 1

\* the loop of parseHitObjects from line k on
RECURSIVE parseHitObjectsFrom(_, _, _, _, _, _)
parseHitObjectsFrom(lines, k, comboNumber, comboColorIndex, count, out) ==
    IF k > Len(lines) THEN out
    ELSE IF lines[k].parts < 4 \/ TypeBit(lines[k].type, 3) = 1
    THEN parseHitObjectsFrom(lines, k + 1, comboNumber, comboColorIndex,
                             count, out)
    ELSE parseHitObjectsFrom(lines, k + 1,
            nextComboNumber(lines[k].type, comboNumber),
            nextColorIndex(lines[k].type, comboColorIndex, count),
            count,
            pushParsed(out, lines[k], TypeBit(lines[k].type, 2) = 1,
                       nextComboNumber(lines[k].type, comboNumber),
                       nextColorIndex(lines[k].type, comboColorIndex,
                                      count)))

parseHitObjects(lines, comboColorCount) ==
    parseHitObjectsFrom(lines, 1, 0, 0, Max(1, comboColorCount), << >>)

----------------------------------------------------------------------------
(* Calls of the pure functions of the results screen and of the parser *)

\* most objects of one tier in the counts of a call
MaxTierCount == 11

GradeCalls ==
    {[fn |-> "calculateGrade",
      stats |-> [hit300 |-> a, hit100 |-> b, hit50 |-> c, misses |-> m]] :
        a \in 0..MaxTierCount, b \in 0..2, c \in 0..2, m \in 0..2}

\* longest list of hit-object lines of a call
MaxLines == 3

\* circle, slider, circle and slider, circle with new combo, slider with new
\* combo, circle with new combo and a colour skip, spinner, spinner with new
\* combo, hold note, hold note with new combo; and a line of three fields
HitObjectLines ==
    {HitObjectLine(t, 6) : t \in {1, 2, 3, 5, 6, 21, 8, 12, 128, 132}}
    \cup {HitObjectLine(1, 3)}

RECURSIVE LineLists(_)
LineLists(n) ==
    IF n = 0 THEN {<< >>}
    ELSE LineLists(n - 1)
         \cup {Append(l, line) : l \in {m \in LineLists(n - 1) :
                                            Len(m) = n - 1},
                                 line \in HitObjectLines}

HitObjectCalls ==
    {[fn |-> "parseHitObjects", lines |-> l] : l \in LineLists(MaxLines)}

\* longest text after the key of a key/value line
MaxValueLength == 4

\* the texts of at most n pieces of the alphabet
RECURSIVE Texts(_, _)
Texts(alphabet, n) ==
    IF n = 0 THEN {<< >>}
    ELSE Texts(alphabet, n - 1)
         \cup {Append(t, c) : t \in {u \in Texts(alphabet, n - 1) :
                                         Len(u) = n - 1},
                              c \in alphabet}

\* one line that begins with a key of the section; the rest of the line may
\* hold colons, blanks and the given pieces
KeyLines(keys, pieces) ==
    {<< <<k>> \o t >> : k \in keys,
                        t \in Texts({":", " "} \cup pieces, MaxValueLength)}

DifficultyKeys ==
    {"HPDrainRate", "CircleSize", "OverallDifficulty", "ApproachRate",
     "SliderMultiplier", "SliderTickRate"}

SectionCalls ==
    {[fn |-> "parseGeneral", lines |-> l] :
        l \in KeyLines({"AudioFilename"}, {"a"}) \cup {<< >>}}
    \cup {[fn |-> "parseMetadata", lines |-> l] :
        l \in KeyLines({"Title"}, {"a"}) \cup {<< >>}}
    \cup {[fn |-> "parseDifficulty", lines |-> l] :
        l \in KeyLines(DifficultyKeys, {"0", "7", "x"}) \cup {<< >>}}

Calls == GradeCalls \cup HitObjectCalls \cup SectionCalls

InitCalls ==
    /\ SessionInit
    /\ args \in Calls
    /\ result = NoCall

\* showResults: calculateAccuracy() and calculateGrade() on the counts
callCalculateGrade ==
    /\ args.fn = "calculateGrade"
    /\ result = NoCall
    /\ result' = [fn |-> "calculateGrade",
                  accuracy |-> calculateAccuracy(args.stats),
                  grade |-> calculateGrade(args.stats)]
    /\ UNCHANGED <<session, args>>

\* parse: parseHitObjects(sections.HitObjects, comboColorCount) with the
\* default number of combo colours
callParseHitObjects ==
    /\ args.fn = "parseHitObjects"
    /\ result = NoCall
    /\ result' = [fn |-> "parseHitObjects",
                  value |-> parseHitObjects(args.lines, 4)]
    /\ UNCHANGED <<session, args>>

\* parse: parseGeneral(sections['General'] || [])
callParseGeneral ==
    /\ args.fn = "parseGeneral"
    /\ result = NoCall
    /\ result' = [fn |-> "parseGeneral", value |-> parseGeneral(args.lines)]
    /\ UNCHANGED <<session, args>>

\* parse: parseMetadata(sections['Metadata'] || [])
callParseMetadata ==
    /\ args.fn = "parseMetadata"
    /\ result = NoCall
    /\ result' = [fn |-> "parseMetadata",
                  value |-> parseMetadata(args.lines)]
    /\ UNCHANGED <<session, args>>

\* parse: parseDifficulty(sections['Difficulty'] || [])
callParseDifficulty ==
    /\ args.fn = "parseDifficulty"
    /\ result = NoCall
    /\ result' = [fn |-> "parseDifficulty",
                  value |-> parseDifficulty(args.lines)]
    /\ UNCHANGED <<session, args>>

NextCalls ==
    \/ callCalculateGrade
    \/ callParseHitObjects
    \/ callParseGeneral
    \/ callParseMetadata
    \/ callParseDifficulty

SpecCalls == InitCalls /\ [][NextCalls]_vars

----------------------------------------------------------------------------
(* OsuParser.parseColours, OsuParser.parse and the calls of parse *)

\* a line of [Colours] that matches Combo<n> : r,g,b and one that does not
ComboLine(k) == [combo |-> TRUE, r |-> k, g |-> 0, b |-> 0]

OtherLine == [combo |-> FALSE, r |-> 0, g |-> 0, b |-> 0]

\* the four default colours
DefaultColours ==
    << [r |-> 255, g |-> 192, b |-> 0], [r |-> 0, g |-> 202, b |-> 0],
       [r |-> 18, g |-> 124, b |-> 255], [r |-> 242, g |-> 24, b |-> 57] >>

\* the colours pushed for the matching lines
RECURSIVE matchedColours(_)
matchedColours(lines) ==
    IF lines = << >> THEN << >>
    ELSE IF Head(lines).combo
         THEN <<[r |-> Head(lines).r, g |-> Head(lines).g,
                 b |-> Head(lines).b]>> \o matchedColours(Tail(lines))
         ELSE matchedColours(Tail(lines))

coloursOr(colours) == IF Len(colours) = 0 THEN DefaultColours ELSE colours

parseColours(lines) == coloursOr(matchedColours(lines))

\* the colours and hitObjects fields of the document parse returns
parsedWith(colours, hitObjectLines) ==
    [colours |-> colours,
     hitObjects |-> parseHitObjects(hitObjectLines, Len(colours))]

parse(colourLines, hitObjectLines) ==
    parsedWith(parseColours(colourLines), hitObjectLines)

\* [Colours] sections without a colour, with one, two and three colours, and
\* with a line that declares none
ColourSections ==
    {[i \in 1..n |-> ComboLine(i)] : n \in 0..3} \cup {<<OtherLine>>}

ParseCalls ==
    [fn : {"parse"}, colours : ColourSections,
     lines : LineLists(MaxLines)]

InitParse ==
    /\ SessionInit
    /\ args \in ParseCalls
    /\ result = NoCall

callParse ==
    /\ args.fn = "parse"
    /\ result = NoCall
    /\ result' = [fn |-> "parse", value |-> parse(args.colours, args.lines)]
    /\ UNCHANGED <<session, args>>

NextParse == callParse

SpecParse == InitParse /\ [][NextParse]_vars

----------------------------------------------------------------------------
(* OsuParser: curve geometry *)

\* the coordinates are exact rationals; NaN is the result of 0 / 0 and of
\* 0 * (x / 0)
NaN == [n |-> 0, d |-> 0]

RAdd(a, b) ==
    Rat(a.n * (b.d \div GCD(a.d, b.d)) + b.n * (a.d \div GCD(a.d, b.d)),
        (a.d \div GCD(a.d, b.d)) * b.d)

\* a / b; the callers divide by 0 only where the quotient is 0 / 0 or is
\* multiplied by 0
Quotient(a, b) == IF b.n = 0 THEN NaN ELSE RDiv(a, b)

\* { x: x, y: y }
Point(x, y) == [x |-> RInt(x), y |-> RInt(y)]

\* a + (b - a) * t
interpolate(a, b, t) ==
    IF t = NaN THEN NaN ELSE RAdd(a, RMul(RSub(b, a), t))

\* { x: p1.x + (p2.x - p1.x) * t, y: p1.y + (p2.y - p1.y) * t }
pointBetween(p1, p2, t) ==
    [x |-> interpolate(p1.x, p2.x, t), y |-> interpolate(p1.y, p2.y, t)]

\* the sequences of a sequence of sequences, one after the other
RECURSIVE Concat(_)
Concat(seqs) ==
    IF seqs = << >> THEN << >> ELSE Head(seqs) \o Concat(Tail(seqs))

\* the largest k in lo..hi with k * k <= n
RECURSIVE RootBetween(_, _, _)
RootBetween(n, lo, hi) ==
    IF lo = hi THEN lo
    ELSE IF ((lo + hi + 1) \div 2) * ((lo + hi + 1) \div 2) <= n
         THEN RootBetween(n, (lo + hi + 1) \div 2, hi)
         ELSE RootBetween(n, lo, (lo + hi + 1) \div 2 - 1)

\* the root of a square number below 2^30
Root(n) == RootBetween(n, 0, Min(n, 32767))

IsSquare(n) == Root(n) * Root(n) = n

\* dx * dx + dy * dy
squaredLength(dx, dy) == RAdd(RMul(dx, dx), RMul(dy, dy))

\* Math.hypot(dx, dy), for the distances that are rational
rootOf(s) == Rat(Root(s.n), Root(s.d))

hypot(dx, dy) == rootOf(squaredLength(dx, dy))

\* splitBezierSegments: the loop from index i on
pushSegment(segments, currentSegment) ==
    IF Len(currentSegment) > 1 THEN Append(segments, currentSegment)
    ELSE segments

RECURSIVE splitFrom(_, _, _, _)
splitFrom(points, i, segments, currentSegment) ==
    IF i > Len(points) THEN pushSegment(segments, currentSegment)
    ELSE IF points[i - 1] = points[i]
         THEN splitFrom(points, i + 1, pushSegment(segments, currentSegment),
                        <<points[i]>>)
         ELSE splitFrom(points, i + 1, segments,
                        Append(currentSegment, points[i]))

\* segments.length > 0 ? segments : [points]
segmentsOr(segments, points) ==
    IF Len(segments) > 0 THEN segments ELSE <<points>>

splitBezierSegments(points) ==
    segmentsOr(splitFrom(points, 2, << >>, <<points[1]>>), points)

\* De Casteljau
RECURSIVE bezierPoint(_, _)
bezierPoint(points, t) ==
    IF Len(points) = 1 THEN points[1]
    ELSE bezierPoint([i \in 1..(Len(points) - 1) |->
                         pointBetween(points[i], points[i + 1], t)], t)

\* for (let t = 0; t <= 1; t += 1 / resolution) of a resolution that is a
\* power of two, where the additions are exact and t reaches 1
segmentSamples(segment, resolution) ==
    IF Len(segment) < 2 THEN << >>
    ELSE [k \in 1..(resolution + 1) |->
             bezierPoint(segment, Rat(k - 1, resolution))]

bezierSamples(segments, resolution) ==
    Concat([s \in 1..Len(segments) |->
               segmentSamples(segments[s], resolution)])

generateBezierCurve(points, resolution) ==
    IF Len(points) < 2 THEN points
    ELSE bezierSamples(splitBezierSegments(points), resolution)

\* the samples of one straight segment, j = 0 .. pointsPerSegment
lineSamples(p1, p2, pointsPerSegment) ==
    [k \in 1..(pointsPerSegment + 1) |->
        pointBetween(p1, p2, Quotient(RInt(k - 1), RInt(pointsPerSegment)))]

linearSamples(points, pointsPerSegment) ==
    Concat([i \in 1..(Len(points) - 1) |->
               lineSamples(points[i], points[i + 1], pointsPerSegment)])

generateLinearCurve(points, resolution) ==
    IF Len(points) < 2 THEN points
    ELSE linearSamples(points, RCeil(Rat(resolution, Len(points) - 1)))

\* return null
Null == [null |-> TRUE]

\* 2 * (ax * (by - cy) + bx * (cy - ay) + cx * (ay - by))
circleDeterminant(p1, p2, p3) ==
    RMul(RInt(2),
         RAdd(RMul(p1.x, RSub(p2.y, p3.y)),
              RAdd(RMul(p2.x, RSub(p3.y, p1.y)),
                   RMul(p3.x, RSub(p1.y, p2.y)))))

\* ax * ax + ay * ay
squareOf(p) == RAdd(RMul(p.x, p.x), RMul(p.y, p.y))

\* ux and uy
centerOver(p1, p2, p3, d) ==
    [x |-> Quotient(RAdd(RMul(squareOf(p1), RSub(p2.y, p3.y)),
                         RAdd(RMul(squareOf(p2), RSub(p3.y, p1.y)),
                              RMul(squareOf(p3), RSub(p1.y, p2.y)))), d),
     y |-> Quotient(RAdd(RMul(squareOf(p1), RSub(p3.x, p2.x)),
                         RAdd(RMul(squareOf(p2), RSub(p1.x, p3.x)),
                              RMul(squareOf(p3), RSub(p2.x, p1.x)))), d)]

\* Math.abs(d) < 0.0001
nearlyZero(d) == RLt(Rat(Abs(d.n), d.d), Rat(1, 10000))

getCircleCenter_NeverNull(p1, p2, p3) ==
    centerOver(p1, p2, p3, circleDeterminant(p1, p2, p3))

getCircleCenter(p1, p2, p3) ==
    IF nearlyZero(circleDeterminant(p1, p2, p3)) THEN Null
    ELSE centerOver(p1, p2, p3, circleDeterminant(p1, p2, p3))

\* (p2.x - p1.x) * (p3.y - p1.y) - (p2.y - p1.y) * (p3.x - p1.x)
crossProduct(p1, p2, p3) ==
    RSub(RMul(RSub(p2.x, p1.x), RSub(p3.y, p1.y)),
         RMul(RSub(p2.y, p1.y), RSub(p3.x, p1.x)))

\* sample i of the arc around center from p1 to p3, clockwise where the cross
\* product is negative: center + radius * (cos, sin) of the angle
\* startAngle + angleDiff * i / resolution. The sines and cosines are not
\* rational, so the sample is kept as the values that determine it.
arcSample(center, p1, p3, clockwise, i, resolution) ==
    [center |-> center, from |-> p1, to |-> p3, clockwise |-> clockwise,
     t |-> Rat(i, resolution)]

arcSamples(center, p1, p2, p3, resolution) ==
    [k \in 1..(resolution + 1) |->
        arcSample(center, p1, p3, crossProduct(p1, p2, p3).n < 0, k - 1,
                  resolution)]

arcOrLine(points, resolution, center) ==
    IF center = Null THEN generateLinearCurve(points, resolution)
    ELSE arcSamples(center, points[1], points[2], points[3], resolution)

generatePerfectCircleCurve(points, resolution) ==
    IF Len(points) < 3 THEN generateLinearCurve(points, resolution)
    ELSE arcOrLine(points, resolution,
                   getCircleCenter(points[1], points[2], points[3]))

\* trimCurveToLength: the loop from index i on
RECURSIVE trimFrom(_, _, _, _, _)
trimSegment_Keeps(points, targetLength, i, kept, currentLength, segmentLength) ==
    IF RLe(targetLength, RAdd(currentLength, segmentLength))
    THEN Append(kept, points[i])
    ELSE trimFrom(points, targetLength, i + 1, Append(kept, points[i]),
                  RAdd(currentLength, segmentLength))

trimSegment(points, targetLength, i, kept, currentLength, segmentLength) ==
    IF RLe(targetLength, RAdd(currentLength, segmentLength))
    THEN Append(kept,
                pointBetween(points[i - 1], points[i],
                             Quotient(RSub(targetLength, currentLength),
                                      segmentLength)))
    ELSE trimFrom(points, targetLength, i + 1, Append(kept, points[i]),
                  RAdd(currentLength, segmentLength))

trimFrom(points, targetLength, i, kept, currentLength) ==
    IF i > Len(points) THEN kept
    ELSE trimSegment(points, targetLength, i, kept, currentLength,
                     hypot(RSub(points[i].x, points[i - 1].x),
                           RSub(points[i].y, points[i - 1].y)))

trimCurveToLength(points, targetLength) ==
    IF Len(points) < 2 THEN points
    ELSE trimFrom(points, targetLength, 2, <<points[1]>>, RInt(0))

\* the samples before the trim
rawCurve(curveType, allPoints, resolution) ==
    IF curveType = "L" THEN generateLinearCurve(allPoints, resolution)
    ELSE IF curveType = "P"
         THEN generatePerfectCircleCurve(allPoints, resolution)
         ELSE generateBezierCurve(allPoints, resolution)

generateCurve(curveType, startX, startY, controlPoints, length, resolution) ==
    trimCurveToLength(rawCurve(curveType,
                               <<Point(startX, startY)>> \o controlPoints,
                               resolution),
                      length)

----------------------------------------------------------------------------
(* Calls of the curve functions *)

\* most control points of a slider of a call
MaxControlPoints == 3

\* the start of the slider, two points of its row and one above the row;
\* every two of them are a whole number of pixels apart (30, 40, 50 or 60)
CurvePoints == {Point(0, 0), Point(30, 0), Point(60, 0), Point(30, 40)}

\* powers of two (see segmentSamples)
Resolutions == {2, 4}

\* nominal lengths: shorter than every segment, as long as one, the length
\* parseHitObjects takes for a missing one, and longer than every path
TargetLengths == {RInt(20), RInt(50), RInt(100), RInt(400)}

rationalRoot(s) == IsSquare(s.n) /\ IsSquare(s.d)

\* every sample has coordinates and every segment a rational length
Measurable(points) ==
    /\ \A i \in 1..Len(points) : "x" \in DOMAIN points[i]
    /\ \A i \in 2..Len(points) :
          rationalRoot(squaredLength(RSub(points[i].x, points[i - 1].x),
                                     RSub(points[i].y, points[i - 1].y)))

PointLists == Texts(CurvePoints, MaxControlPoints + 1) \ {<< >>}

SplitCalls ==
    {[fn |-> "splitBezierSegments", points |-> p] : p \in PointLists}

CircleCalls ==
    {[fn |-> "generatePerfectCircleCurve", points |-> p, resolution |-> r] :
        p \in PointLists, r \in Resolutions}

TrimCalls ==
    {[fn |-> "trimCurveToLength", points |-> p, targetLength |-> l] :
        p \in {q \in PointLists : Measurable(q)}, l \in TargetLengths}

\* loadBeatmap: generateCurve(obj.curveType, obj.x, obj.y, obj.controlPoints,
\* obj.length, resolution) of a slider at (0, 0)
CurveCalls ==
    {c \in [fn : {"generateCurve"}, curveType : {"B", "L", "P"},
            controlPoints : Texts(CurvePoints, MaxControlPoints),
            length : TargetLengths, resolution : Resolutions] :
        Measurable(rawCurve(c.curveType, <<Point(0, 0)>> \o c.controlPoints,
                            c.resolution))}

InitCurves ==
    /\ SessionInit
    /\ args \in SplitCalls \cup CircleCalls \cup TrimCalls \cup CurveCalls
    /\ result = NoCall

callSplitBezierSegments ==
    /\ args.fn = "splitBezierSegments"
    /\ result = NoCall
    /\ result' = [fn |-> "splitBezierSegments",
                  value |-> splitBezierSegments(args.points)]
    /\ UNCHANGED <<session, args>>

callGeneratePerfectCircleCurve ==
    /\ args.fn = "generatePerfectCircleCurve"
    /\ result = NoCall
    /\ result' = [fn |-> "generatePerfectCircleCurve",
                  value |-> generatePerfectCircleCurve(args.points,
                                                       args.resolution)]
    /\ UNCHANGED <<session, args>>

callTrimCurveToLength ==
    /\ args.fn = "trimCurveToLength"
    /\ result = NoCall
    /\ result' = [fn |-> "trimCurveToLength",
                  value |-> trimCurveToLength(args.points,
                                              args.targetLength)]
    /\ UNCHANGED <<session, args>>

callGenerateCurve ==
    /\ args.fn = "generateCurve"
    /\ result = NoCall
    /\ result' = [fn |-> "generateCurve",
                  value |-> generateCurve(args.curveType, 0, 0,
                                          args.controlPoints, args.length,
                                          args.resolution)]
    /\ UNCHANGED <<session, args>>

NextCurves ==
    \/ callSplitBezierSegments
    \/ callGeneratePerfectCircleCurve
    \/ callTrimCurveToLength
    \/ callGenerateCurve

SpecCurves == InitCurves /\ [][NextCurves]_vars

----------------------------------------------------------------------------
(* Calls of loadBeatmap *)

\* two equal sliders, one at 500 ms and one at 1500 ms, on the timing points
\* of the call; the timing points are in file order, sorted or not
LoadCalls ==
    [fn : {"loadBeatmap"},
     timingPoints : TimingLists(MaxTimingPoints),
     sliderMultiplier : {Rat(4, 10), Rat(14, 10)},
     sliderTickRate : {1, 2},
     length : {80, 100, 140},
     slides : {1, 2}]

\* the document OsuParser.parse returns for the chart of the call
loadedChart(call) ==
    [id |-> "load", audioLength |-> AudioDuration,
     difficulty |-> Difficulty(5, 4, 10, 10, call.sliderMultiplier,
                               call.sliderTickRate),
     timingPoints |-> call.timingPoints,
     hitObjects |-> << Slider(PA, 500, call.slides, call.length,
                              Straight(call.length)),
                       Slider(PA, 1500, call.slides, call.length,
                              Straight(call.length)) >>]

InitLoad ==
    /\ SessionInit
    /\ args \in LoadCalls
    /\ result = NoCall

\* loadBeatmap: this.hitObjects of the parsed chart
callLoadBeatmap ==
    /\ args.fn = "loadBeatmap"
    /\ result = NoCall
    /\ result' = [fn |-> "loadBeatmap",
                  value |-> loadBeatmapObjects(loadedChart(args))]
    /\ UNCHANGED <<session, args>>

NextLoad == callLoadBeatmap

SpecLoad == InitLoad /\ [][NextLoad]_vars

----------------------------------------------------------------------------
(* Host integration: the song id list (osu-integration.js) *)

\* fetches of beatmaps.json started in one page life
MaxFetches == 3

\* songIdsLoadPromise = null
NoPromise == 0

\* the ids of the entries of a beatmaps.json document, as fetched: "" stands
\* for an id that is missing, not a string or blank
FetchedIds ==
    {<<>>, <<"a">>, <<"">>, <<"a", "b">>, <<"a", "a">>, <<"b", "">>}

\* [...new Set(ids.filter(Boolean))]: the non-empty ids, first occurrences
\* only, in file order
RECURSIVE uniqueSongIds(_, _)
uniqueSongIds(ids, seen) ==
    IF ids = <<>> THEN seen
    ELSE IF Head(ids) = "" \/ (\E k \in 1..Len(seen) : seen[k] = Head(ids))
         THEN uniqueSongIds(Tail(ids), seen)
         ELSE uniqueSongIds(Tail(ids), Append(seen, Head(ids)))

\* the module state: songIdsCache, songIdsLoadPromise (the number of the fetch
\* whose promise it holds, or NoPromise), the fetches in flight and the
\* number of fetches started
HostLoaded ==
    [fn |-> "songIds", songIdsCache |-> <<>>, songIdsLoadPromise |-> NoPromise,
     inFlight |-> {}, started |-> 0]

songIdsCache == result.songIdsCache

songIdsLoadPromise == result.songIdsLoadPromise

inFlight == result.inFlight

\* loadSongIds up to its return: the async function of the new promise runs
\* synchronously up to the await of fetch
loadSongIds(h, forceRefresh) ==
    IF Len(h.songIdsCache) > 0 /\ ~forceRefresh THEN h
    ELSE IF h.songIdsLoadPromise # NoPromise /\ ~forceRefresh THEN h
    ELSE [h EXCEPT !.songIdsLoadPromise = h.started + 1,
                   !.inFlight = @ \cup {h.started + 1},
                   !.started = @ + 1]

\* the rest of the async function of fetch f: outcome.ok with the ids of the
\* document, or a rejected fetch, an HTTP error or a malformed body
settleFetch(h, f, outcome) ==
    [h EXCEPT !.songIdsCache = IF outcome.ok
                                THEN uniqueSongIds(outcome.ids, <<>>)
                                ELSE @,
              !.songIdsLoadPromise = NoPromise,
              !.inFlight = @ \ {f}]

FetchOutcomes ==
    [ok : {TRUE}, ids : FetchedIds] \cup {[ok |-> FALSE, ids |-> <<>>]}

\* the macro handler; its value is formatSongIds(songIdsCache)
getSongIdsMacroValue ==
    /\ result.fn = "songIds"
    /\ loadSongIds(result, FALSE).started <= MaxFetches
    /\ result' = IF Len(songIdsCache) = 0 /\ songIdsLoadPromise = NoPromise
                 THEN loadSongIds(result, FALSE)
                 ELSE result
    /\ args' = [fn |-> "getSongIdsMacroValue"]
    /\ UNCHANGED session

\* the slash command callback up to its await
getSongIdsCommandValue ==
    /\ result.fn = "songIds"
    /\ loadSongIds(result, TRUE).started <= MaxFetches
    /\ result' = loadSongIds(result, TRUE)
    /\ args' = [fn |-> "getSongIdsCommandValue"]
    /\ UNCHANGED session

\* a non-forced loadSongIds() of any other caller
callLoadSongIds ==
    /\ result.fn = "songIds"
    /\ loadSongIds(result, FALSE).started <= MaxFetches
    /\ result' = loadSongIds(result, FALSE)
    /\ args' = [fn |-> "loadSongIds"]
    /\ UNCHANGED session

\* a fetch in flight settles and the async function runs to its end
fetchSettles(f, outcome) ==
    /\ result.fn = "songIds"
    /\ f \in inFlight
    /\ result' = settleFetch(result, f, outcome)
    /\ args' = [fn |-> "fetch"]
    /\ UNCHANGED session

\* the page after the module was evaluated: void loadSongIds() has run
InitSongIds ==
    /\ SessionInit
    /\ args = [fn |-> "loadSongIds"]
    /\ result = loadSongIds(HostLoaded, FALSE)

NextSongIds ==
    \/ getSongIdsMacroValue
    \/ getSongIdsCommandValue
    \/ callLoadSongIds
    \/ \E f \in 1..MaxFetches, outcome \in FetchOutcomes :
           fetchSettles(f, outcome)

SpecSongIds == InitSongIds /\ [][NextSongIds]_vars

----------------------------------------------------------------------------
(* Host integration: launches and their result messages (osu-integration.js) *)

\* launches of the game in one page life
MaxLaunches == 2

\* windows a message event can name as its source: none (null), the content
\* window of the iframe of launch l (the number l), or any other window
NullWindow == 0

OtherWindow == MaxLaunches + 1

Windows == 0..(MaxLaunches + 1)

\* values of Math.random().toString(36): two launches may draw the same
GameIds == {"g1", "g2"}

\* gameUrl.origin, and the origin of any other sender
expectedOrigin == "game"

Origins == {"game", "other"}

\* ev.data.data: the fields the handler reads.  scored = FALSE stands for a
\* payload without a numeric score (or without data at all: data = {})
ResultData ==
    {[failed |-> TRUE, fullCombo |-> FALSE, scored |-> TRUE],
     [failed |-> FALSE, fullCombo |-> TRUE, scored |-> TRUE],
     [failed |-> FALSE, fullCombo |-> FALSE, scored |-> TRUE],
     [failed |-> FALSE, fullCombo |-> FALSE, scored |-> FALSE]}

NoData == [present |-> FALSE, type |-> "", gameId |-> "",
           data |-> [failed |-> FALSE, fullCombo |-> FALSE, scored |-> FALSE]]

\* ev.data: absent, or an object with type, gameId and data
MessageData ==
    {NoData} \cup [present : {TRUE}, type : {"osuComplete", "other"},
                   gameId : GameIds, data : ResultData]

MessageEvents == [source : Windows, origin : Origins, data : MessageData]

\* the host page before the first launch: the launches made so far, the
\* entries of context.chat and the value of #send_textarea
HostInit ==
    [fn |-> "host", launches |-> <<>>, chat |-> <<>>, inputField |-> ""]

\* the closure of one launchOsuGame call: listening (handleOsuMessage is a
\* 'message' listener), presented (the overlay is shown, fullscreen mode
\* only), gameMessage (the chat message element is connected), applied (how
\* often the result text was put into the input field)
Launch(gameId, useFullscreenOverlay) ==
    [gameId |-> gameId, useFullscreenOverlay |-> useFullscreenOverlay,
     listening |-> TRUE, presented |-> useFullscreenOverlay,
     gameMessage |-> TRUE, applied |-> 0]

\* iframe.contentWindow of launch l: null once the iframe is detached
contentWindow(launch, l) ==
    IF launch.useFullscreenOverlay
    THEN (IF launch.presented THEN l ELSE NullWindow)
    ELSE (IF launch.gameMessage THEN l ELSE NullWindow)

\* context.chat.splice(findIndex(msg => msg.mes === gameId), 1)
RECURSIVE spliceMessage(_, _)
spliceMessage(chat, gameId) ==
    IF chat = <<>> THEN chat
    ELSE IF Head(chat) = gameId THEN Tail(chat)
    ELSE <<Head(chat)>> \o spliceMessage(Tail(chat), gameId)

\* removeEventListener('message', handleOsuMessage); cleanupPresentation();
\* removeGameMessage()
closeLaunch(h, l) ==
    [h EXCEPT !.launches[l].listening = FALSE,
              !.launches[l].presented = FALSE,
              !.launches[l].gameMessage = FALSE,
              !.chat = spliceMessage(@, h.launches[l].gameId)]

\* the three texts of the result, by their headline
resultText(data) ==
    IF data.failed THEN "FAILED"
    ELSE IF data.fullCombo THEN "FULL COMBO"
    ELSE "PLAYED"

\* the rest of the handler: data.score.toLocaleString() throws on a payload
\* without a score, before the input field is set
applyResult(h, l, data) ==
    IF ~data.scored THEN h
    ELSE [h EXCEPT !.inputField = resultText(data),
                   !.launches[l].applied = @ + 1]

handleOsuMessage_KeepsListener(h, l, ev) ==
    IF ev.source # contentWindow(h.launches[l], l) THEN h
    ELSE IF ev.origin # expectedOrigin THEN h
    ELSE IF ~ev.data.present \/ ev.data.type # "osuComplete" THEN h
    ELSE IF ev.data.gameId # h.launches[l].gameId THEN h
    ELSE applyResult(h, l, ev.data.data)

\* handleOsuMessage of launch l
handleOsuMessage(h, l, ev) ==
    IF ev.source # contentWindow(h.launches[l], l) THEN h
    ELSE IF ev.origin # expectedOrigin THEN h
    ELSE IF ~ev.data.present \/ ev.data.type # "osuComplete" THEN h
    ELSE IF ev.data.gameId # h.launches[l].gameId THEN h
    ELSE applyResult(closeLaunch(h, l), l, ev.data.data)

\* a 'message' event of the host window runs the registered listeners in
\* the order of their registration; an exception in one does not stop the
\* others
RECURSIVE dispatchMessage(_, _, _)
dispatchMessage(h, l, ev) ==
    IF l > Len(h.launches) THEN h
    ELSE dispatchMessage(IF h.launches[l].listening
                         THEN handleOsuMessage(h, l, ev)
                         ELSE h,
                         l + 1, ev)

\* launchOsuGame: a new chat message, iframe and listener
launchOsuGame(gameId, useFullscreenOverlay) ==
    /\ result.fn = "host"
    /\ Len(result.launches) < MaxLaunches
    /\ result' = [result EXCEPT
                     !.launches = Append(@, Launch(gameId,
                                                   useFullscreenOverlay)),
                     !.chat = Append(@, gameId)]
    /\ args' = [fn |-> "launchOsuGame"]
    /\ UNCHANGED session

\* the Close button of the overlay of launch l
handleOverlayClose(l) ==
    /\ result.fn = "host"
    /\ l \in 1..Len(result.launches)
    /\ result.launches[l].presented
    /\ result' = closeLaunch(result, l)
    /\ args' = [fn |-> "handleOverlayClose"]
    /\ UNCHANGED session

\* any window posts a message to the host window
windowMessage(ev) ==
    /\ result.fn = "host"
    /\ result' = dispatchMessage(result, 1, ev)
    /\ args' = [fn |-> "message", ev |-> ev]
    /\ UNCHANGED session

\* the game in the iframe of launch l: sendResultsAndClose posts its payload,
\* with the gameId of its URL, to the parent
sendResultsAndClose(l, data) ==
    /\ result.fn = "host"
    /\ l \in 1..Len(result.launches)
    /\ contentWindow(result.launches[l], l) = l
    /\ data.scored
    /\ windowMessage([source |-> l, origin |-> expectedOrigin,
                      data |-> [present |-> TRUE, type |-> "osuComplete",
                                gameId |-> result.launches[l].gameId,
                                data |-> data]])

InitHost ==
    /\ SessionInit
    /\ args = NoCall
    /\ result = HostInit

NextHost ==
    \/ \E gameId \in GameIds, useFullscreenOverlay \in BOOLEAN :
           launchOsuGame(gameId, useFullscreenOverlay)
    \/ \E l \in 1..MaxLaunches : handleOverlayClose(l)
    \/ \E ev \in MessageEvents : windowMessage(ev)
    \/ \E l \in 1..MaxLaunches, data \in ResultData :
           sendResultsAndClose(l, data)

SpecHost == InitHost /\ [][NextHost]_vars

----------------------------------------------------------------------------
(* The beatmap registry tools: delete-beatmap.js *)

\* path strings are sequences of characters
Sep == "/"

Dot == <<".">>

DotDot == <<".", ".">>

OsuName == <<"O", "s", "u">>

Osu2Name == <<"O", "s", "u", "2">>

\* segments a basePath of the registry is made of
MaxSegments == 3

SegmentNames == {OsuName, Osu2Name, <<"s">>, <<"t">>, Dot, DotDot}

\* "/a/b" of <<a, b>>
RECURSIVE joinSegments(_)
joinSegments(segs) ==
    IF segs = <<>> THEN <<>>
    ELSE <<Sep>> \o Head(segs) \o joinSegments(Tail(segs))

\* str.split(sep)
RECURSIVE splitPath(_, _, _)
splitPath(str, seg, acc) ==
    IF str = <<>> THEN Append(acc, seg)
    ELSE IF Head(str) = Sep
         THEN splitPath(Tail(str), <<>>, Append(acc, seg))
         ELSE splitPath(Tail(str), Append(seg, Head(str)), acc)

\* normalisation of an absolute path: empty and "." segments dropped, ".."
\* removes the segment before it and stays at the root
RECURSIVE normalizeSegments(_, _)
normalizeSegments(segs, out) ==
    IF segs = <<>> THEN out
    ELSE IF Head(segs) = <<>> \/ Head(segs) = Dot
         THEN normalizeSegments(Tail(segs), out)
    ELSE IF Head(segs) = DotDot
         THEN normalizeSegments(Tail(segs),
                                IF out = <<>> THEN out
                                ELSE SubSeq(out, 1, Len(out) - 1))
    ELSE normalizeSegments(Tail(segs), Append(out, Head(segs)))

absoluteOf(segs) == IF segs = <<>> THEN <<Sep>> ELSE joinSegments(segs)

\* path.join(a, b) of an absolute a, up to the normalisation path.resolve
\* repeats
pathJoin(a, b) == a \o <<Sep>> \o b

\* path.resolve of an absolute path
pathResolve(str) ==
    absoluteOf(normalizeSegments(splitPath(str, <<>>, <<>>), <<>>))

\* String.prototype.startsWith
startsWith(str, prefix) ==
    Len(str) >= Len(prefix) /\ SubSeq(str, 1, Len(prefix)) = prefix

\* __dirname
dirname == <<Sep, "w">>

BEATMAPS_JSON == pathResolve(pathJoin(dirname, <<"j">>))

OSU_ROOT == pathResolve(pathJoin(dirname, OsuName))

\* the value null of resolveBeatmapDirectory: no path string is empty
NoPath == <<>>

allowedOrNull(resolvedPath, allowedPrefix) ==
    IF startsWith(resolvedPath, allowedPrefix) THEN resolvedPath ELSE NoPath

resolveBeatmapDirectory_NoSep(basePath) ==
    allowedOrNull(pathResolve(pathJoin(dirname, basePath)), OSU_ROOT)

resolveBeatmapDirectory(basePath) ==
    allowedOrNull(pathResolve(pathJoin(dirname, basePath)),
                  OSU_ROOT \o <<Sep>>)

\* the file system: entries [path, dir]
Dir(segs) == [path |-> joinSegments(segs), dir |-> TRUE]

File(segs) == [path |-> joinSegments(segs), dir |-> FALSE]

existsSync(files, p) == \E e \in files : e.path = p

isDirectory(files, p) == \E e \in files : e.path = p /\ e.dir

\* the entries fs.readdirSync(dirPath) names
readdirSync(files, dirPath) ==
    {e \in files :
        /\ startsWith(e.path, dirPath \o <<Sep>>)
        /\ \A k \in (Len(dirPath) + 2)..Len(e.path) : e.path[k] # Sep}

RECURSIVE deleteDirectory(_, _)
RECURSIVE deleteEntries(_, _)

\* one round of the forEach of deleteDirectory
deleteEntry(files, e, todo) ==
    deleteEntries(IF e.dir THEN deleteDirectory(files, e.path)
                  ELSE files \ {e},
                  todo \ {e})

deleteEntries(files, todo) ==
    IF todo = {} THEN files
    ELSE deleteEntry(files, CHOOSE e \in todo : TRUE, todo)

\* deleteDirectory: readdirSync of a file throws, and nothing is deleted
deleteDirectory(files, dirPath) ==
    IF ~existsSync(files, dirPath) THEN files
    ELSE IF ~isDirectory(files, dirPath) THEN files
    ELSE {e \in deleteEntries(files, readdirSync(files, dirPath)) :
             e.path # dirPath}

\* data.beatmaps.findIndex(b => b.id === beatmapId), 0 for -1
RECURSIVE findIndexFrom(_, _, _)
findIndexFrom(beatmaps, beatmapId, k) ==
    IF k > Len(beatmaps) THEN 0
    ELSE IF beatmaps[k].id = beatmapId THEN k
    ELSE findIndexFrom(beatmaps, beatmapId, k + 1)

\* data.beatmaps.splice(index, 1)
spliceAt(beatmaps, index) ==
    SubSeq(beatmaps, 1, index - 1) \o SubSeq(beatmaps, index + 1, Len(beatmaps))

\* saveBeatmaps: beatmaps.json is written (and created when missing)
saveBeatmaps(h, beatmaps) ==
    [h EXCEPT !.beatmaps = beatmaps,
              !.files = @ \cup {[path |-> BEATMAPS_JSON, dir |-> FALSE]}]

\* the deleteFiles branch of deleteBeatmap
deleteFilesOf(h, beatmapDir) ==
    IF beatmapDir = NoPath THEN h
    ELSE IF existsSync(h.files, beatmapDir)
         THEN [h EXCEPT !.files = deleteDirectory(@, beatmapDir)]
    ELSE h

deleteAt(h, index, deleteFiles) ==
    IF index = 0 THEN h
    ELSE IF deleteFiles
         THEN deleteFilesOf(saveBeatmaps(h, spliceAt(h.beatmaps, index)),
                            resolveBeatmapDirectory(h.beatmaps[index].basePath))
    ELSE saveBeatmaps(h, spliceAt(h.beatmaps, index))

\* deleteBeatmap on the registry and file system h
deleteBeatmap(h, beatmapId, deleteFiles) ==
    deleteAt(h, findIndexFrom(h.beatmaps, beatmapId, 1), deleteFiles)

\* the tree the tool is run in
InstalledFiles ==
    {Dir(<<<<"w">>>>), File(<<<<"w">>, <<"j">>>>),
     Dir(<<<<"w">>, OsuName>>),
     Dir(<<<<"w">>, OsuName, <<"s">>>>),
     File(<<<<"w">>, OsuName, <<"s">>, <<"f">>>>),
     Dir(<<<<"w">>, OsuName, <<"s">>, <<"s">>>>),
     File(<<<<"w">>, OsuName, <<"s">>, <<"s">>, <<"f">>>>),
     File(<<<<"w">>, OsuName, <<"t">>>>),
     Dir(<<<<"w">>, Osu2Name>>),
     File(<<<<"w">>, Osu2Name, <<"f">>>>),
     Dir(<<<<"w">>, <<"s">>>>),
     File(<<<<"w">>, <<"s">>, <<"f">>>>),
     Dir(<<<<"t">>>>),
     File(<<<<"t">>, <<"f">>>>)}

\* the basePath strings of a registry entry: relative, or with a leading
\* separator
RECURSIVE relativeOf(_)
relativeOf(segs) ==
    IF segs = <<>> THEN <<>>
    ELSE IF Len(segs) = 1 THEN Head(segs)
    ELSE Head(segs) \o <<Sep>> \o relativeOf(Tail(segs))

SegmentLists ==
    UNION {[1..n -> SegmentNames] : n \in 0..MaxSegments}

BasePaths ==
    {relativeOf(segs) : segs \in SegmentLists}
        \cup {<<Sep>> \o relativeOf(segs) : segs \in SegmentLists}

BeatmapIds == {"a", "b"}

\* a registry of two entries: the first with any basePath, the second one
\* installed by the import tool
Registries ==
    {<<[id |-> "a", basePath |-> p],
       [id |-> "b", basePath |-> relativeOf(<<OsuName, <<"s">>, <<"s">>>>)]>> :
        p \in BasePaths}

\* node delete-beatmap.js <id> [--files]: main reads the id and the flag and
\* calls deleteBeatmap
callDeleteBeatmap(beatmapId, deleteFiles) ==
    /\ result.fn = "registry"
    /\ result' = deleteBeatmap(result, beatmapId, deleteFiles)
    /\ args' = [fn |-> "deleteBeatmap", beatmapId |-> beatmapId,
                deleteFiles |-> deleteFiles]
    /\ UNCHANGED session

InitDelete ==
    /\ SessionInit
    /\ args = NoCall
    /\ \E beatmaps \in Registries :
           result = [fn |-> "registry", beatmaps |-> beatmaps,
                     files |-> InstalledFiles]

NextDelete ==
    \E beatmapId \in BeatmapIds \cup {"c"}, deleteFiles \in BOOLEAN :
        callDeleteBeatmap(beatmapId, deleteFiles)

SpecDelete == InitDelete /\ [][NextDelete]_vars

----------------------------------------------------------------------------
(* The beatmap registry tools: add-beatmap.js *)

\* entries a registry of the model holds at most
MaxEntries == 2

Uppercase == {"A", "T", "U"}

\* String.prototype.toLowerCase, one character
lowerOf(ch) ==
    IF ch = "A" THEN "a" ELSE IF ch = "T" THEN "t"
    ELSE IF ch = "U" THEN "u" ELSE ch

\* \d
IdDigits == {"0", "1", "2", "3", "4", "5", "6", "7", "8", "9"}

\* [a-z0-9], of the letters the model's texts use
isIdChar(ch) ==
    ch \in IdDigits \cup {"a", "b", "c", "e", "s", "t", "u", "y"}

\* .toLowerCase().replace(/[^a-z0-9]+/g, '-'): every run of other characters
\* becomes one hyphen
RECURSIVE hyphenate(_, _, _)
hyphenate(str, out, inRun) ==
    IF str = <<>> THEN out
    ELSE IF isIdChar(lowerOf(Head(str)))
         THEN hyphenate(Tail(str), Append(out, lowerOf(Head(str))), FALSE)
    ELSE IF inRun THEN hyphenate(Tail(str), out, TRUE)
    ELSE hyphenate(Tail(str), Append(out, "-"), TRUE)

\* .replace(/^-|-$/g, '')
stripLeading(str) ==
    IF str # <<>> /\ Head(str) = "-" THEN Tail(str) ELSE str

stripTrailing(str) ==
    IF str # <<>> /\ str[Len(str)] = "-" THEN SubSeq(str, 1, Len(str) - 1)
    ELSE str

generateId(str) == stripTrailing(stripLeading(hyphenate(str, <<>>, FALSE)))

\* /^\d+$/.test(setId)
isDigits(str) == str # <<>> /\ \A k \in 1..Len(str) : str[k] \in IdDigits

\* a || fallback of strings
orElse(str, fallback) == IF str = <<>> THEN fallback ELSE str

\* the id main computes for a set
computedId(baseId, setId, creator) ==
    IF isDigits(setId) /\ setId # <<"0">> /\ setId # <<"-", "1">>
    THEN baseId \o <<"-", "s", "e", "t", "-">> \o setId
    ELSE baseId \o <<"-", "b", "y", "-">> \o generateId(creator)

\* beatmapEntry of an archive: data stands for audioFile, background and
\* difficulties
entryOf(id, archive, title, artist, creator) ==
    [id |-> id, title |-> title, artist |-> artist, creator |-> creator,
     basePath |-> <<"O", "s", "u", "/">> \o archive.folderName \o <<"/">>,
     data |-> archive.data]

beatmapEntry(archive, title, artist, creator) ==
    entryOf(computedId(generateId(artist \o <<"-">> \o title), archive.setId,
                       creator),
            archive, title, artist, creator)

\* beatmaps.findIndex(b => b.id === beatmapId || (b.id === legacyBeatmapId &&
\* b.title === title && b.artist === artist)), 0 for -1
RECURSIVE existingIndexFrom(_, _, _, _)
existingIndexFrom(beatmaps, entry, legacyBeatmapId, k) ==
    IF k > Len(beatmaps) THEN 0
    ELSE IF \/ beatmaps[k].id = entry.id
            \/ /\ beatmaps[k].id = legacyBeatmapId
               /\ beatmaps[k].title = entry.title
               /\ beatmaps[k].artist = entry.artist
         THEN k
    ELSE existingIndexFrom(beatmaps, entry, legacyBeatmapId, k + 1)

\* the update-or-add of main
registerAt(beatmaps, entry, existingIndex) ==
    IF existingIndex # 0
    THEN [beatmaps EXCEPT
             ![existingIndex] = [entry EXCEPT !.id = beatmaps[existingIndex].id]]
    ELSE Append(beatmaps, entry)

registerEntry(beatmaps, entry) ==
    registerAt(beatmaps, entry,
               existingIndexFrom(beatmaps, entry, generateId(entry.title), 1))

\* main from the metadata of the first standard difficulty on: the registry
\* after the import of archive
addBeatmap(beatmaps, archive) ==
    registerEntry(beatmaps,
                  beatmapEntry(archive,
                               orElse(archive.Title, archive.folderName),
                               orElse(archive.Artist,
                                      <<"U", "n", "k", "n", "o", "w", "n", " ",
                                        "A", "r", "t", "i", "s", "t">>),
                               orElse(archive.Creator,
                                      <<"U", "n", "k", "n", "o", "w", "n">>)))

\* archives: the metadata of the first standard difficulty, the folder name
\* of the archive's file name and the rest of its content
Archives ==
    [Title : {<<"t">>, <<"T", "!">>, <<>>}, Artist : {<<"a">>},
     Creator : {<<"c">>, <<>>}, setId : {<<"1">>, <<"0">>},
     folderName : {<<"u">>}, data : {1, 2}]

\* an entry registered under its title-only id
legacyEntry(title) ==
    [id |-> generateId(title), title |-> title, artist |-> <<"a">>,
     creator |-> <<"c">>, basePath |-> <<"O", "s", "u", "/", "u", "/">>,
     data |-> 0]

\* registries with unique ids the tool starts from
StartRegistries ==
    {<<>>, <<legacyEntry(<<"t">>)>>, <<legacyEntry(<<"u">>)>>,
     <<legacyEntry(<<"T", "!">>), legacyEntry(<<"u">>)>>}

\* node add-beatmap.js <archive>
callAddBeatmap(archive) ==
    /\ result.fn = "import"
    /\ Len(addBeatmap(result.beatmaps, archive)) <= MaxEntries
    /\ result' = [result EXCEPT !.beatmaps = addBeatmap(@, archive)]
    /\ args' = [fn |-> "addBeatmap", archive |-> archive]
    /\ UNCHANGED session

InitImport ==
    /\ SessionInit
    /\ args = NoCall
    /\ \E beatmaps \in StartRegistries :
           result = [fn |-> "import", beatmaps |-> beatmaps]

NextImport == \E archive \in Archives : callAddBeatmap(archive)

SpecImport == InitImport /\ [][NextImport]_vars

----------------------------------------------------------------------------
(* Vocabulary of the properties *)

Objects == 1..Len(hitObjects)

Sliders == {i \in Objects : hitObjects[i].type = "slider"}

Circles == {i \in Objects : hitObjects[i].type = "circle"}

TierCount == stats.hit300 + stats.hit100 + stats.hit50 + stats.misses

Counter(st, v) ==
    CASE v = 300 -> st.hit300
      [] v = 100 -> st.hit100
      [] v = 50  -> st.hit50
      [] OTHER   -> st.misses

Rank(state) ==
    CASE state = "PENDING" -> 0
      [] state = "ACTIVE"  -> 1
      [] state = "SLIDING" -> 2
      [] OTHER             -> 3

\* a step that stays within the play attempt (startCountdown begins a new one)
SameAttempt == currentState' # "COUNTDOWN"

\* the objects that get their judgement in this step
NewlyResolved ==
    {i \in Objects : hitObjects[i].state \notin Resolved
                     /\ hitObjects'[i].state \in Resolved}

\* the sliders whose slide ends in this step
Completing ==
    {i \in Sliders : hitObjects[i].state = "SLIDING"
                     /\ hitObjects'[i].state \in Resolved}

RECURSIVE SumOver(_, _)
SumOver(S, f) ==
    IF S = {} THEN 0
    ELSE LET i == CHOOSE j \in S : TRUE
         IN  f[i] + SumOver(S \ {i}, f)

\* slider ticks awarded in this step
NewTicks ==
    SumOver(Sliders, [i \in Sliders |->
                hitObjects'[i].ticksHit - hitObjects[i].ticksHit])

----------------------------------------------------------------------------
\* C1: within one play attempt every hit object only moves forward through
\* PENDING -> ACTIVE -> (SLIDING, sliders only) -> resolved, a resolved
\* object never changes again, and the tier counters hit300 + hit100 + hit50
\* + misses grow by exactly the number of objects resolved in the step, so
\* that every object is counted once.
C1_JudgedOnce ==
    [][SameAttempt =>
         /\ \A i \in Objects :
               LET a == hitObjects[i].state
                   b == hitObjects'[i].state
               IN  /\ Rank(b) >= Rank(a)
                   /\ a \in Resolved => b = a
                   /\ (a = "PENDING" /\ hitObjects'[i].type = "circle")
                         => Rank(b) # 2
                   /\ b = "SLIDING" => /\ hitObjects[i].type = "slider"
                                       /\ a \in {"ACTIVE", "SLIDING"}
         /\ TierCount' - TierCount = Cardinality(NewlyResolved)
         /\ TierCount' = Cardinality({i \in Objects :
                                        hitObjects'[i].state \in Resolved})
      ]_vars

\* a whole chart judged: a miss, and a slider that was tracked
C1_Witness ==
    /\ Len(hitObjects) = 3
    /\ \A i \in Objects : hitObjects[i].state \in Resolved
    /\ stats.misses >= 1
    /\ \E i \in Sliders : hitObjects[i].ticksHit > 0
    /\ TierCount = 3

----------------------------------------------------------------------------
\* C2: when the misses of an update tick drive the health to 0, that same
\* tick marks the session failed and enters the results state, whatever
\* slider ticks or completions the tick also contains.
C2_FailsWhenHealthHitsZero ==
    [][(update /\ updateMisses(G, beatmap, audioTime).stats.health = 0)
          => (stats'.failed /\ currentState' = "RESULTS")]_vars

----------------------------------------------------------------------------
\* C3: in a session without any hit (no tier counted, no slider started)
\* failed is false up to 12 misses and true from the 13th, and no miss is
\* recorded beyond the 13th.
C3_ThirteenMisses ==
    (stats.hit300 + stats.hit100 + stats.hit50 = 0 /\ stats.score = 0)
       => /\ stats.failed <=> stats.misses >= 13
          /\ stats.misses <= 13

----------------------------------------------------------------------------
\* The tier the fraction ticksHit / totalTicks gives a slider
TierByFraction(o) ==
    IF o.ticksHit * 10 >= 9 * o.totalTicks /\ ~o.trackingBroken THEN 300
    ELSE IF o.ticksHit * 10 >= 5 * o.totalTicks THEN 100
    ELSE IF o.ticksHit > 0 THEN 50
    ELSE 0

\* C4: a Tracking slider with totalTicks > 0 whose slide ends is counted in
\* the tier given by ticksHit / totalTicks (>= 0.9 and unbroken: 300, >= 0.5:
\* 100, > 0: 50, 0: Miss).
C4_TierByTickFraction ==
    [][(SameAttempt
        /\ Completing # {}
        /\ \A i \in Completing : hitObjects[i].totalTicks > 0)
          => /\ \A v \in {300, 100, 50} :
                  Counter(stats', v) - Counter(stats, v)
                     = Cardinality({i \in Completing :
                                      TierByFraction(hitObjects'[i]) = v})
             /\ stats'.misses - stats.misses
                  >= Cardinality({i \in Completing :
                                    TierByFraction(hitObjects'[i]) = 0})
      ]_vars

----------------------------------------------------------------------------
\* C5: during the countdown that follows a retry (before the first update
\* tick of the new attempt) every object is PENDING with tracking false,
\* trackingBroken false, ticksHit 0 and endHit false, the active list is
\* empty, the object cursor is 0 and the stats are zeroed.
C5_CleanAfterRetry ==
    currentState = "COUNTDOWN"
       => /\ \A i \in Objects :
                /\ hitObjects[i].state = "PENDING"
                /\ ~hitObjects[i].tracking
                /\ ~hitObjects[i].trackingBroken
                /\ hitObjects[i].ticksHit = 0
                /\ ~hitObjects[i].endHit
          /\ activeObjects = <<>>
          /\ nextObjectIndex = 0
          /\ stats = createEmptyStats

----------------------------------------------------------------------------
\* C6: a step whose only judgements are Misses (circle timeouts, sliders
\* never started, started sliders ending with no tick hit) takes 8 health
\* per Miss, not below 0, resets the combo and counts each Miss.
C6_MissPenalty ==
    [][(/\ SameAttempt
        /\ stats'.misses > stats.misses
        /\ stats'.hit300 = stats.hit300
        /\ stats'.hit100 = stats.hit100
        /\ stats'.hit50 = stats.hit50
        /\ NewTicks = 0)
          => /\ stats'.health
                  = Max(0, stats.health - 8 * (stats'.misses - stats.misses))
             /\ stats'.combo = 0
             /\ stats'.misses - stats.misses = Cardinality(NewlyResolved)
      ]_vars

----------------------------------------------------------------------------
\* C7: the health lies in [0, 100] in every reachable state.
C7_HealthRange == stats.health \in 0..100

\* the health driven to 0 by misses after it was capped at 100 by a tick
C7_Witness ==
    /\ stats.health = 0
    /\ stats.misses >= 13
    /\ \E i \in Sliders : hitObjects[i].ticksHit > 0

----------------------------------------------------------------------------
HitStates == {"HIT_300", "HIT_100", "HIT_50"}

\* the circles hit by the input of this step
CircleHits ==
    {i \in Circles : hitObjects[i].state = "ACTIVE"
                     /\ hitObjects'[i].state \in HitStates}

\* the slider heads hit by the input of this step
HeadHits ==
    {i \in Sliders : hitObjects[i].state = "ACTIVE"
                     /\ hitObjects'[i].state = "SLIDING"}

\* the score of the ticks and end bonuses of this step
SliderExtras ==
    10 * NewTicks
    + 30 * Cardinality({i \in Completing :
                          hitObjects'[i].tracking
                          /\ ~hitObjects'[i].trackingBroken})

\* C8: every object resolved with tier v in {300, 100, 50}, a circle hit or
\* a slider's final tier, adds v + floor(v * combo * difficultyMultiplier
\* * 0.01) to the score, the combo read after the judgement's own increment
\* (next to the ticks and end bonus the same step awards).
C8_ScorePerTier ==
    [][SameAttempt =>
         \A v \in {300, 100, 50} :
            Counter(stats', v) = Counter(stats, v) + 1
               => stats'.score
                    = stats.score + v
                      + ((v * stats'.combo * getDifficultyMultiplier(beatmap))
                         \div 100)
                      + SliderExtras
      ]_vars

----------------------------------------------------------------------------
\* a Miss or a break of slider tracking happens in this step
ResetInStep ==
    \/ stats'.misses > stats.misses
    \/ \E i \in Sliders : /\ hitObjects[i].state = "SLIDING"
                          /\ ~hitObjects[i].trackingBroken
                          /\ hitObjects'[i].trackingBroken

TierJudgements ==
    (stats'.hit300 + stats'.hit100 + stats'.hit50)
    - (stats.hit300 + stats.hit100 + stats.hit50)

\* C9: the combo is reset by a Miss or a tracking break; otherwise it grows
\* by exactly 1 per 300/100/50 judgement (a circle hit, a slider head hit, a
\* slider resolving with that tier) and by the number of ticks crossed.
\* In a step without a Miss every slider that resolves does so with a tier.
C9_ComboRules ==
    [][SameAttempt =>
         IF ResetInStep
         THEN stats'.combo <= TierJudgements + NewTicks
         ELSE stats'.combo = stats.combo + Cardinality(CircleHits)
                             + Cardinality(HeadHits)
                             + Cardinality(Completing) + NewTicks
      ]_vars

----------------------------------------------------------------------------
\* the object i passes both tests of an input at p
Qualifies(i, p) ==
    /\ hitObjects[i].state = "ACTIVE"
    /\ Abs(audioTime - hitObjects[i].time)
          <= 200 - 10 * beatmap.difficulty.overallDifficulty
    /\ WithinDistance(p[1] - hitObjects[i].x, p[2] - hitObjects[i].y, 1,
                      Rat(5440 - 448 * beatmap.difficulty.circleSize, 100),
                      Rat(12, 10))

\* the effect an input at p may have on the objects
OldestMatchOnly(p) ==
    /\ Cardinality({i \in Objects : hitObjects'[i] # hitObjects[i]}) <= 1
    /\ (\E i \in Objects : Qualifies(i, p))
          => \E i \in Objects : hitObjects'[i] # hitObjects[i]
    /\ \A i \in Objects :
          hitObjects'[i] # hitObjects[i]
             => /\ Qualifies(i, p)
                /\ \A j \in Objects :
                      Qualifies(j, p)
                         => /\ hitObjects[i].time <= hitObjects[j].time
                            /\ i <= j
                /\ hitObjects'[i].state
                     \in (IF hitObjects[i].type = "slider" THEN {"SLIDING"}
                          ELSE HitStates)

\* C10: an input event changes at most one object, the oldest Active object
\* (circle or slider head) inside the 50-window and within 1.2 radii of the
\* input position; older Active objects failing a test stay as they are.
C10_OldestMatch ==
    [][currentState = "PLAYING" =>
         /\ \A p \in Points : mouseDownAt(p) => OldestMatchOnly(p)
         /\ handleKeydown => OldestMatchOnly(cursor)
      ]_vars

\* the second circle was hit while the first, older one is still Active
C10_Witness ==
    /\ Len(hitObjects) = 3
    /\ hitObjects[1].state = "ACTIVE"
    /\ hitObjects[2].state \in HitStates

----------------------------------------------------------------------------
\* no Active object passes both tests of an input at p
Discarded(p) == \A i \in Objects : ~Qualifies(i, p)

\* C11: an input event for which no Active object satisfies both the
\* time-window and the distance test leaves score, combo, maxCombo, the tier
\* counts, misses, health and every object's state unchanged.
C11_DiscardedInput ==
    [][/\ \A p \in Points :
             (mouseDownAt(p) /\ Discarded(p))
                => (stats' = stats /\ hitObjects' = hitObjects)
       /\ (handleKeydown /\ Discarded(cursor))
             => (stats' = stats /\ hitObjects' = hitObjects)
      ]_vars

\* both a pointer and a key press happened, one hit the first circle and the
\* other found the second circle too far and the slider too early
C11_Witness ==
    /\ currentState = "PLAYING"
    /\ Len(hitObjects) = 3
    /\ mouseDown /\ keyDown
    /\ cursor = PA
    /\ audioTime = 50
    /\ hitObjects[1].state \in HitStates
    /\ hitObjects[2].state = "ACTIVE"
    /\ hitObjects[3].state = "ACTIVE"
    /\ stats.hit300 + stats.hit100 + stats.hit50 = 1

----------------------------------------------------------------------------
\* the object i is due: objectTime - currentTime <= approachTime, the
\* approach time by the law of the derivation (AR >= 5 in the charts)
Due(i) ==
    hitObjects[i].time - audioTime
       <= 1200 - 150 * (beatmap.difficulty.approachRate - 5)

\* C12: within an attempt an object leaves PENDING only in an update tick at
\* which it is due, and does so at the first such tick; the cursor never
\* decreases, the objects before it are exactly those that left PENDING, so
\* no object is activated before an earlier one and none is skipped.
C12_ActivationOrder ==
    [][SameAttempt =>
         /\ nextObjectIndex' >= nextObjectIndex
         /\ \A i \in Objects :
               /\ (hitObjects[i].state = "PENDING"
                   /\ hitObjects'[i].state # "PENDING")
                     => /\ update
                        /\ Due(i)
                        /\ \A j \in 1..i : hitObjects'[j].state # "PENDING"
               /\ (hitObjects[i].state = "PENDING" /\ Due(i) /\ update)
                     => /\ hitObjects'[i].state # "PENDING"
                        /\ i \in {activeObjects'[k] :
                                     k \in 1..Len(activeObjects')}
                           \/ hitObjects'[i].state = "MISS"
               /\ i <= nextObjectIndex' <=> hitObjects'[i].state # "PENDING"
      ]_vars

\* the cursor stands between the second circle, visible, and the third,
\* still dormant
C12_Witness ==
    /\ beatmap = StaggerChart
    /\ currentState = "PLAYING"
    /\ nextObjectIndex = 2
    /\ hitObjects[2].state = "ACTIVE"
    /\ hitObjects[3].state = "PENDING"
    /\ audioTime = 50

----------------------------------------------------------------------------
\* the derived timing constants of the chart in play
ApproachTimeInPlay == getApproachTime(beatmap.difficulty.approachRate)

HitWindowsInPlay == getHitWindows(beatmap.difficulty.overallDifficulty)

\* C20 as stated: with AR 9 and OD 8 the approach time is 1200 ms and the hit
\* windows are 32 / 76 / 120 ms, and the single circle at 1000 ms is
\* activated by every update tick with 1000 - currentTime <= 1200, the first
\* tick of the session included.
C20_ScenarioAsStated ==
    [][(update /\ beatmap = ScenarioChart)
          => /\ ApproachTimeInPlay = 1200
             /\ HitWindowsInPlay = [hit300 |-> 32, hit100 |-> 76, hit50 |-> 120]
             /\ 1000 - audioTime <= 1200
                   => hitObjects'[1].state # "PENDING"
      ]_vars

\* C20 amended: with AR 9 and OD 8 the approach time is 600 ms and the hit
\* windows are 32 / 76 / 120 ms; the single circle at 1000 ms stays dormant
\* through every update tick before 400 ms and is activated by the first
\* update tick with 1000 - currentTime <= 600, that is from 400 ms on.
C20_Scenario ==
    [][(update /\ beatmap = ScenarioChart)
          => /\ ApproachTimeInPlay = 600
             /\ HitWindowsInPlay = [hit300 |-> 32, hit100 |-> 76, hit50 |-> 120]
             /\ hitObjects[1].state = "PENDING"
                   => (hitObjects'[1].state # "PENDING" <=> audioTime >= 400)
      ]_vars

\* the circle is visible at 400 ms, after an update at 350 ms had left it
\* dormant
C20_Witness ==
    /\ beatmap = ScenarioChart
    /\ currentState = "PLAYING"
    /\ audioTime = 400
    /\ hitObjects[1].state = "ACTIVE"
    /\ activeObjects = <<1>>

----------------------------------------------------------------------------
\* the last instant at which the object i can be hit: objectTime + hit50
Deadline(i) ==
    hitObjects[i].time + 200 - 10 * beatmap.difficulty.overallDifficulty

\* the object i is hit (a circle) or started (a slider head) in this step
HitNow(i) ==
    /\ hitObjects[i].state = "ACTIVE"
    /\ hitObjects'[i].state \in HitStates \cup {"SLIDING"}

\* C13: an Active object, circle or unstarted slider, resolves as Miss at
\* the first update tick with currentTime > objectTime + hit50 and at no
\* other step; a timed-out slider never enters Tracking; an object is hit
\* only inside its hit window, and an input at exactly objectTime + hit50 on
\* the object still hits it.
C13_TimeoutMiss ==
    [][SameAttempt =>
         \A i \in Objects :
            /\ (hitObjects[i].state = "ACTIVE" /\ audioTime > Deadline(i)
                /\ update)
                  => hitObjects'[i].state = "MISS"
            /\ (hitObjects[i].state = "ACTIVE"
                /\ hitObjects'[i].state = "MISS")
                  => (update /\ audioTime > Deadline(i))
            /\ hitObjects[i].state = "MISS"
                  => (hitObjects'[i].state = "MISS"
                      /\ hitObjects'[i].tracking = hitObjects[i].tracking)
            /\ HitNow(i) => Abs(audioTime - hitObjects[i].time)
                               <= Deadline(i) - hitObjects[i].time
            /\ (/\ currentState = "PLAYING"
                /\ audioTime = Deadline(i)
                /\ \E p \in Points :
                      /\ mouseDownAt(p)
                      /\ Qualifies(i, p)
                      /\ \A j \in 1..(i - 1) : ~Qualifies(j, p))
                  => HitNow(i)
      ]_vars

\* the first circle was hit at the very end of its window (tier 50 is given
\* there only), the second timed out
C13_Witness ==
    /\ beatmap = MainChart
    /\ hitObjects[1].state = "HIT_50"
    /\ hitObjects[2].state = "MISS"
    /\ stats.hit50 = 1
    /\ stats.misses >= 1

----------------------------------------------------------------------------
\* the tier of an input on the object i by its absolute time offset
TierAt(i) ==
    IF Abs(audioTime - hitObjects[i].time)
          <= 80 - 6 * beatmap.difficulty.overallDifficulty THEN 300
    ELSE IF Abs(audioTime - hitObjects[i].time)
          <= 140 - 8 * beatmap.difficulty.overallDifficulty THEN 100
    ELSE 50

\* C15: an input matching an Active slider's head puts the slider in state
\* SLIDING with tracking true and trackingBroken false, adds
\* floor(tier / 3) to the score at once, counts the slider in no tier
\* counter and leaves it in the active list.
C15_SliderStart ==
    [][SameAttempt =>
         \A i \in HeadHits :
            /\ hitObjects'[i].tracking
            /\ ~hitObjects'[i].trackingBroken
            /\ stats'.score = stats.score + (TierAt(i) \div 3)
            /\ stats'.hit300 = stats.hit300
            /\ stats'.hit100 = stats.hit100
            /\ stats'.hit50 = stats.hit50
            /\ stats'.misses = stats.misses
            /\ activeObjects' = activeObjects
            /\ \E k \in 1..Len(activeObjects') : activeObjects'[k] = i
      ]_vars

\* a slider started with a tier-100 head hit, not yet counted
C15_Witness ==
    /\ TierCount = 0
    /\ stats.score = 33
    /\ \E i \in Sliders :
          /\ hitObjects[i].state = "SLIDING"
          /\ hitObjects[i].tracking
          /\ ~hitObjects[i].trackingBroken
          /\ \E k \in 1..Len(activeObjects) : activeObjects[k] = i

----------------------------------------------------------------------------
\* the slider i is in Tracking
Tracking(i) ==
    /\ hitObjects[i].state = "SLIDING"
    /\ hitObjects[i].tracking
    /\ ~hitObjects[i].trackingBroken

\* at the current time the input is not held, or the cursor is farther than
\* 2.4 radii from the ball of the slider i
Lost(i) ==
    \/ ~(mouseDown \/ keyDown)
    \/ ~inFollowRadius(cursor,
           getSliderBallPosition(hitObjects[i],
               clampElapsed(hitObjects[i],
                            RInt(audioTime - hitObjects[i].time))),
           getCircleRadius(beatmap.difficulty.circleSize))

\* the tracking of the slider i breaks in this step
BreaksNow(i) ==
    /\ hitObjects[i].state = "SLIDING"
    /\ ~hitObjects[i].trackingBroken
    /\ hitObjects'[i].trackingBroken

\* C16: an update tick that finds a Tracking slider with the input not held
\* or the cursor beyond 2.4 radii of the ball sets trackingBroken, and
\* nothing else does; trackingBroken then stays set; the break resets the
\* combo, awards the slider no tick, changes the health by nothing of its
\* own, and leaves the slider SLIDING in the active list unless its total
\* duration has elapsed.
C16_TrackingBreak ==
    [][SameAttempt =>
         \A i \in Sliders :
            /\ (Tracking(i) /\ Lost(i) /\ update)
                  => (hitObjects'[i].trackingBroken
                      /\ ~hitObjects'[i].tracking)
            /\ BreaksNow(i)
                  => /\ Lost(i)
                     /\ update
                     /\ stats'.combo <= NewTicks
                     /\ hitObjects'[i].ticksHit = hitObjects[i].ticksHit
                     /\ (NewlyResolved = {} /\ NewTicks = 0)
                           => stats'.health = stats.health
                     /\ RLt(RInt(audioTime - hitObjects[i].time),
                            hitObjects[i].totalDuration)
                           => /\ hitObjects'[i].state = "SLIDING"
                              /\ \E k \in 1..Len(activeObjects') :
                                    activeObjects'[k] = i
            /\ (hitObjects[i].state = "SLIDING"
                /\ hitObjects[i].trackingBroken)
                  => (hitObjects'[i].trackingBroken
                      /\ ~hitObjects'[i].tracking
                      /\ hitObjects'[i].ticksHit = hitObjects[i].ticksHit)
      ]_vars

\* a slider that lost its tracking after a tick, still sliding
C16_Witness ==
    /\ stats.combo = 0
    /\ stats.maxCombo >= 2
    /\ stats.health = 100
    /\ \E i \in Sliders :
          /\ hitObjects[i].state = "SLIDING"
          /\ hitObjects[i].trackingBroken
          /\ hitObjects[i].ticksHit >= 1
          /\ \E k \in 1..Len(activeObjects) : activeObjects[k] = i

----------------------------------------------------------------------------
\* the tick boundaries of a slider: tick j of slide s lies j tick spacings
\* after the start of the slide
TickBoundaries(o) ==
    {b \in (0 .. o.slides - 1) \X (1 .. o.ticksPerSlide) : TRUE}

BoundaryTime(o, b) ==
    RSub(RMul(RInt(b[1]), o.slideDuration),
         RMul(RInt(-b[2]), o.tickSpacing))

\* the number of tick boundaries of the slider i that the elapsed time has
\* crossed at the current time
CrossedTicks(i) ==
    Cardinality({b \in TickBoundaries(hitObjects[i]) :
        RLe(BoundaryTime(hitObjects[i], b),
            clampElapsed(hitObjects[i],
                         RInt(audioTime - hitObjects[i].time)))})

\* some slider loses its tracking in this step
SomeBreak == \E i \in Sliders : BreaksNow(i)

\* C17: during an attempt ticksHit of a slider never decreases and never
\* exceeds totalTicks; after an update tick a slider that is still tracked
\* has been awarded each tick boundary crossed so far exactly once; a step
\* that awards n ticks, judges nothing and starts no slider adds 10 n score, n health capped at
\* 100 and, unless a tracking break reset it, n combo.
C17_TickAwards ==
    [][SameAttempt =>
         /\ \A i \in Sliders :
               /\ hitObjects'[i].ticksHit >= hitObjects[i].ticksHit
               /\ hitObjects'[i].ticksHit <= hitObjects[i].totalTicks
               /\ (hitObjects'[i].ticksHit > hitObjects[i].ticksHit)
                     => (Tracking(i) /\ update)
               /\ (Tracking(i) /\ ~hitObjects'[i].trackingBroken /\ update)
                     => hitObjects'[i].ticksHit = CrossedTicks(i)
         /\ (NewlyResolved = {} /\ HeadHits = {})
               => /\ stats'.score = stats.score + 10 * NewTicks
                  /\ stats'.health = Min(100, stats.health + NewTicks)
                  /\ ~SomeBreak => stats'.combo = stats.combo + NewTicks
      ]_vars

----------------------------------------------------------------------------
\* C18: an input event (pointer press or key press) changes no object and no
\* session statistic when it arrives; object states, score, combo and health
\* are written by the update step only.
C18_InputDeferred ==
    [][((\E p \in Points : mouseDownAt(p)) \/ handleKeydown)
          => (hitObjects' = hitObjects /\ stats' = stats)]_vars

----------------------------------------------------------------------------
\* the positions of the list, in file order, of the points of the given kind
\* whose offset is at most the time
Preceding(tps, time, inherited) ==
    {i \in 1..Len(tps) : tps[i].offset <= time
                         /\ tps[i].inherited = inherited}

Last(S) == CHOOSE i \in S : \A j \in S : j <= i

\* base / multiplier from the last uninherited and the last inherited point
\* among all points with offset <= time
BeatLengthOfAll(tps, time) ==
    RDiv(IF Preceding(tps, time, FALSE) = {} THEN RInt(500)
         ELSE RInt(tps[Last(Preceding(tps, time, FALSE))].msPerBeat),
         IF Preceding(tps, time, TRUE) = {} THEN RInt(1)
         ELSE Rat(-100, tps[Last(Preceding(tps, time, TRUE))].msPerBeat))

\* C19: getBeatLengthAtTime returns base / multiplier, base being the raw
\* value of the last uninherited point in file order among all points with
\* offset <= time (500 if none) and multiplier -100 / raw value of the last
\* inherited point among them (1 if none), whatever the order of the offsets
\* in the list.
C19_BeatLengthOfAll ==
    result.fn = "getBeatLengthAtTime"
       => result.value = BeatLengthOfAll(args.timingPoints, args.time)

----------------------------------------------------------------------------
\* every object has left Active/Tracking and the cursor is past the last
\* object
AllProcessed ==
    /\ Len(hitObjects) > 0
    /\ nextObjectIndex >= Len(hitObjects)
    /\ Len(activeObjects) = 0
    /\ \A i \in Objects : hitObjects[i].state \in Resolved

\* C14: the end timer is armed by an update tick that finds every object
\* processed, and only then; while it is armed in a running attempt every
\* object stays processed; when it fires in the PLAYING state the results
\* are entered, in any other state (the session failed or ended before) it
\* changes nothing; the results are entered from PLAYING only by the timer,
\* the end of the track or a failing update; and with update ticks, the
\* advance of the track and the timeout scheduled fairly, a session that is
\* PLAYING gets every object processed and leaves the PLAYING state, for the
\* results unless the player pauses it first.
C14_GraceEnd ==
    /\ [](((endTimer /\ currentState \in {"PLAYING", "PAUSED"})
              => AllProcessed))
    /\ [][/\ (~endTimer /\ endTimer')
               => (AllProcessed' /\ audioTime > 0 /\ update)
          /\ (currentState = "PLAYING" /\ AllProcessed /\ audioTime > 0
              /\ update)
               => endTimer'
          /\ (endTimer /\ endTimerFire)
               => /\ ~endTimer'
                  /\ currentState' = IF currentState = "PLAYING"
                                     THEN "RESULTS" ELSE currentState
                  /\ stats' = stats
                  /\ hitObjects' = hitObjects
          /\ (currentState = "PLAYING" /\ currentState' = "RESULTS")
               => \/ endTimer /\ AllProcessed /\ endTimerFire
                  \/ audioTime = beatmap.audioLength /\ audioEnded
                  \/ stats'.failed /\ stats'.health <= 0 /\ update
         ]_vars
    /\ (currentState = "PLAYING")
          ~> (AllProcessed \/ currentState # "PLAYING")
    /\ (currentState = "PLAYING" /\ AllProcessed)
          ~> (currentState \in {"RESULTS", "PAUSED"})

\* results entered by the end timer: every object processed, the session not
\* failed, the track still running
C14_Witness ==
    /\ currentState = "RESULTS"
    /\ ~stats.failed
    /\ AllProcessed
    /\ ~endTimer
    /\ audioPlaying
    /\ audioTime < beatmap.audioLength
----------------------------------------------------------------------------
\* the scenario of the one-circle chart: a fresh attempt, the circle ACTIVE,
\* the track at 1010 ms
FreshAt1010 ==
    /\ beatmap = ScenarioChart
    /\ currentState = "PLAYING"
    /\ audioTime = 1010
    /\ stats = createEmptyStats
    /\ hitObjects[1].state = "ACTIVE"

\* C21 as stated: the input at 1010 ms on the circle resolves it with tier
\* 300, makes the combo 1 and raises the health by 300 / 50 = 6.
C21_ScenarioAsStated ==
    [][(FreshAt1010 /\ mouseDownAt(PA))
          => /\ hitObjects'[1].state = "HIT_300"
             /\ stats'.combo = 1
             /\ stats'.health = stats.health + 6]_vars

\* C21: the input at 1010 ms on the circle resolves it with tier 300, counts
\* it in hit300 and makes the combo 1; the recovery of 6 is capped: the
\* health of a fresh attempt is 100 and stays 100.
C21_Scenario ==
    [][(FreshAt1010 /\ mouseDownAt(PA))
          => /\ hitObjects'[1].state = "HIT_300"
             /\ stats'.hit300 = 1
             /\ stats'.combo = 1
             /\ stats.health = 100
             /\ stats'.health = Min(100, stats.health + 6)
             /\ stats'.health = 100]_vars

\* the circle hit at 1010 ms in a fresh attempt
C21_Witness ==
    /\ beatmap = ScenarioChart
    /\ currentState = "PLAYING"
    /\ audioTime = 1010
    /\ mouseDown
    /\ hitObjects[1].state = "HIT_300"
    /\ stats.hit300 = 1
    /\ stats.combo = 1
    /\ stats.misses = 0
    /\ stats.health = 100
----------------------------------------------------------------------------
\* the absolute offset of the current time from the time of the object i
AbsOffset(i) == Abs(audioTime - hitObjects[i].time)

\* the three windows by their laws
Window300 == 80 - 6 * beatmap.difficulty.overallDifficulty

Window100 == 140 - 8 * beatmap.difficulty.overallDifficulty

Window50 == 200 - 10 * beatmap.difficulty.overallDifficulty

\* C22: a circle is hit only at an absolute offset within hit50, and its tier
\* follows the offset with inclusive boundaries: 300 up to hit300, 100 up to
\* hit100, 50 up to hit50; with OD 5 the windows are 50 / 100 / 150, an
\* offset of exactly 50 gives 300 and an offset of 51 gives 100.
C22_TierByOffset ==
    [][SameAttempt =>
         \A i \in CircleHits :
            /\ AbsOffset(i) <= Window50
            /\ hitObjects'[i].state = "HIT_300" <=> AbsOffset(i) <= Window300
            /\ hitObjects'[i].state = "HIT_100"
                  <=> (Window300 < AbsOffset(i) /\ AbsOffset(i) <= Window100)
            /\ hitObjects'[i].state = "HIT_50"
                  <=> (Window100 < AbsOffset(i) /\ AbsOffset(i) <= Window50)
            /\ beatmap.difficulty.overallDifficulty = 5
                  => /\ HitWindowsInPlay
                          = [hit300 |-> 50, hit100 |-> 100, hit50 |-> 150]
                     /\ AbsOffset(i) = 50 => hitObjects'[i].state = "HIT_300"
                     /\ AbsOffset(i) = 51 => hitObjects'[i].state = "HIT_100"
                     /\ AbsOffset(i) = 100 => hitObjects'[i].state = "HIT_100"
                     /\ AbsOffset(i) = 150 => hitObjects'[i].state = "HIT_50"
      ]_vars

\* the circle of the OD 5 chart hit with tier 300 at 100 ms, the earliest
\* instant of its 300 window (offset exactly 50)
C22_Witness ==
    /\ beatmap = WindowChart
    /\ audioTime = 100
    /\ hitObjects[1].state = "HIT_300"
    /\ stats.hit300 = 1
    /\ stats.score > 0
----------------------------------------------------------------------------
\* the grade the thresholds on the 300-ratio, the 50-ratio and the miss count
\* give below 100% accuracy
GradeByThresholds(st, n) ==
    IF n = 0 THEN "D"
    ELSE IF 10 * st.hit300 > 9 * n /\ 100 * st.hit50 < n /\ st.misses = 0
    THEN "S"
    ELSE IF (10 * st.hit300 > 8 * n /\ st.misses = 0)
            \/ 10 * st.hit300 > 9 * n THEN "A"
    ELSE IF (10 * st.hit300 > 7 * n /\ st.misses = 0)
            \/ 10 * st.hit300 > 8 * n THEN "B"
    ELSE IF 10 * st.hit300 > 6 * n THEN "C"
    ELSE "D"

\* the accuracy of a call is (300 n300 + 100 n100 + 50 n50) / (300 total) * 100
AccuracyAsDefined(st, n, acc) ==
    IF n = 0 THEN acc = RInt(100)
    ELSE acc.n * (3 * n) * 1
            = (st.hit300 * 300 + st.hit100 * 100 + st.hit50 * 50) * acc.d

\* C23: the accuracy is the weighted share of the judged objects, 100 when
\* nothing was judged; with an accuracy of 100 the grade is the top grade S,
\* and below 100 the grade is given by the thresholds on the 300-ratio, the
\* 50-ratio and the miss count.
C23_AccuracyAndGrade ==
    result.fn = "calculateGrade"
       => /\ AccuracyAsDefined(args.stats, judgedTotal(args.stats),
                               result.accuracy)
          /\ IF result.accuracy = RInt(100)
             THEN result.grade = "S"
             ELSE result.grade
                     = GradeByThresholds(args.stats,
                                         judgedTotal(args.stats))
----------------------------------------------------------------------------
\* C24: every object parseHitObjects emits either starts a new combo with
\* comboNumber 1 or carries the comboNumber of the object emitted before it
\* plus 1; the first emitted object has comboNumber 1.
C24_ComboNumbering ==
    result.fn = "parseHitObjects"
       => \A k \in 1..Len(result.value) :
             \/ result.value[k].isNewCombo /\ result.value[k].comboNumber = 1
             \/ k = 1 /\ result.value[k].comboNumber = 1
             \/ k > 1 /\ result.value[k].comboNumber
                            = result.value[k - 1].comboNumber + 1
----------------------------------------------------------------------------
\* the value of a line split at its first colon only: all of the text after
\* that colon, trimmed
ValueAfterFirstColon(line) == Trim(After(line, IndexOf(line, ":")))

\* the key of a line split at its first colon
KeyBeforeFirstColon(line) == Trim(Before(line, IndexOf(line, ":")))

\* the one line of the call declares the key with a value that is not empty
Declares(lines, key) ==
    /\ Len(lines) = 1
    /\ IndexOf(lines[1], ":") # 0
    /\ KeyBeforeFirstColon(lines[1]) = <<key>>
    /\ ValueAfterFirstColon(lines[1]) # << >>

\* C25: in the General, Metadata and Difficulty sections the value of a line
\* is all of the text after its first colon, trimmed, further colons
\* included: the AudioFilename and the Title of the document are that text,
\* and a difficulty number is parsed from it.
C25_FirstColonSplit ==
    /\ (result.fn = "parseGeneral" /\ Declares(args.lines, "AudioFilename"))
          => result.value.audioFilename = ValueAfterFirstColon(args.lines[1])
    /\ (result.fn = "parseMetadata" /\ Declares(args.lines, "Title"))
          => result.value.title = ValueAfterFirstColon(args.lines[1])
    /\ (result.fn = "parseDifficulty"
        /\ Declares(args.lines, "HPDrainRate")
        /\ ~parseFloat(ValueAfterFirstColon(args.lines[1])).nan
        /\ parseFloat(ValueAfterFirstColon(args.lines[1])).value # 0)
          => result.value.hpDrainRate
                = parseFloat(ValueAfterFirstColon(args.lines[1])).value
----------------------------------------------------------------------------
\* the field of the parsed difficulty that holds the scalar of a key; the
\* slider multiplier by its integer value, 0 when it is the fallback 1.4
ScalarOf(doc, key) ==
    IF key = "HPDrainRate" THEN doc.hpDrainRate
    ELSE IF key = "CircleSize" THEN doc.circleSize
    ELSE IF key = "OverallDifficulty" THEN doc.overallDifficulty
    ELSE IF key = "ApproachRate" THEN doc.approachRate
    ELSE IF key = "SliderMultiplier"
    THEN (IF doc.sliderMultiplier.d = 1 THEN doc.sliderMultiplier.n ELSE 0)
    ELSE doc.sliderTickRate

\* the document of a chart that declares nothing
Fallbacks ==
    [hpDrainRate |-> 5, circleSize |-> 4, overallDifficulty |-> 5,
     approachRate |-> 5, sliderMultiplier |-> Rat(14, 10),
     sliderTickRate |-> 1]

\* the one line of the call declares the key with a parsable number
DeclaresNumber(lines, key) ==
    /\ Declares(lines, key)
    /\ ~parseFloat(ValueAfterFirstColon(lines[1])).nan

\* C26: a difficulty scalar a chart declares with a parsable number, 0
\* included, is that number in the parsed document; a scalar that is absent
\* or not parsable has its fallback (HP 5, CS 4, OD 5, slider multiplier
\* 1.4, tick rate 1); and without an ApproachRate line the approach rate is
\* the overall difficulty of the document.
C26_DifficultyScalars ==
    result.fn = "parseDifficulty"
       => /\ \A key \in DifficultyKeys :
                DeclaresNumber(args.lines, key)
                   => ScalarOf(result.value, key)
                         = parseFloat(ValueAfterFirstColon(args.lines[1])).value
          /\ \A key \in DifficultyKeys \ {"ApproachRate"} :
                ~DeclaresNumber(args.lines, key)
                   => ScalarOf(result.value, key) = ScalarOf(Fallbacks, key)
          /\ ~DeclaresNumber(args.lines, "SliderMultiplier")
                => result.value.sliderMultiplier = Rat(14, 10)
          /\ ~Declares(args.lines, "ApproachRate")
                => result.value.approachRate = result.value.overallDifficulty

----------------------------------------------------------------------------
(* C27: the curve generated for a slider has at least 2 samples, whatever the
   curve type and the number of control points, none included *)

C27_AtLeastTwoSamples ==
    result.fn = "generateCurve" => Len(result.value) >= 2

----------------------------------------------------------------------------
(* C28: the length-normalization pass returns a polyline whose cumulative
   length equals the target length whenever the sampled polyline is at least
   that long, its last point lying on the segment where the target is
   reached; the result is never longer than the target, and it is the sampled
   polyline unchanged when that is shorter than the target. Lengths are the
   exact ones; the target is a positive nominal length. *)

\* the sampled polyline and the target of the call of the pass
Sampled ==
    IF args.fn = "trimCurveToLength" THEN args.points
    ELSE rawCurve(args.curveType, <<Point(0, 0)>> \o args.controlPoints,
                  args.resolution)

Target == IF args.fn = "trimCurveToLength" THEN args.targetLength
          ELSE args.length

\* cumulative length of the first k points of a polyline
RECURSIVE LengthUpTo(_, _)
LengthUpTo(points, k) ==
    IF k < 2 THEN RInt(0)
    ELSE RAdd(LengthUpTo(points, k - 1),
              hypot(RSub(points[k].x, points[k - 1].x),
                    RSub(points[k].y, points[k - 1].y)))

PathLength(points) == LengthUpTo(points, Len(points))

\* q lies on the segment from a to b
OnSegment(q, a, b) ==
    /\ crossProduct(a, b, q).n = 0
    /\ RLe(RMin(a.x, b.x), q.x) /\ RLe(q.x, RMax(a.x, b.x))
    /\ RLe(RMin(a.y, b.y), q.y) /\ RLe(q.y, RMax(a.y, b.y))

\* the result ends on the segment of the sampled polyline where the
\* cumulative length reaches the target, and is the polyline up to there
EndsWhereReached(trimmed, points, target) ==
    /\ Len(trimmed) >= 2
    /\ Len(trimmed) <= Len(points)
    /\ \A i \in 1..(Len(trimmed) - 1) : trimmed[i] = points[i]
    /\ RLt(LengthUpTo(points, Len(trimmed) - 1), target)
    /\ RLe(target, LengthUpTo(points, Len(trimmed)))
    /\ OnSegment(trimmed[Len(trimmed)], points[Len(trimmed) - 1],
                 points[Len(trimmed)])

----------------------------------------------------------------------------
(* C29: perfect-circle generation of three collinear points (three identical
   points included) or of fewer than three points returns exactly what linear
   generation returns for the same points, and every coordinate of it is a
   number *)

\* the first three points lie on one line
Collinear(points) == crossProduct(points[1], points[2], points[3]).n = 0

Degenerate(points) == Len(points) < 3 \/ Collinear(points)

\* a sample with two coordinates, neither of them NaN
IsNumbers(p) ==
    /\ DOMAIN p = {"x", "y"}
    /\ p.x # NaN
    /\ p.y # NaN

C29_CollinearFallsBack ==
    (result.fn = "generatePerfectCircleCurve" /\ Degenerate(args.points))
       => /\ result.value = generateLinearCurve(args.points, args.resolution)
          /\ \A i \in 1..Len(result.value) : IsNumbers(result.value[i])

C29_Witness ==
    /\ result.fn = "generatePerfectCircleCurve"
    /\ args.points = <<Point(0, 0), Point(30, 0), Point(60, 0)>>
    /\ args.resolution = 4
    /\ result.value = <<Point(0, 0), Point(15, 0), Point(30, 0),
                        Point(30, 0), Point(45, 0), Point(60, 0)>>

----------------------------------------------------------------------------
(* C30: a bezier point list with exactly one pair of consecutive identical
   points, wherever the pair is (the first two and the last two points
   included), is split into exactly two sub-curves; a list without
   consecutive identical points is split into exactly one sub-curve, which
   holds all its points *)

\* the indices of the points that repeat their predecessor
DuplicatePairs(points) == {i \in 2..Len(points) : points[i - 1] = points[i]}

C30_SplitAtDuplicates ==
    result.fn = "splitBezierSegments"
       => /\ Cardinality(DuplicatePairs(args.points)) = 1
                => Len(result.value) = 2
          /\ DuplicatePairs(args.points) = {}
                => result.value = <<args.points>>

----------------------------------------------------------------------------
(* C31: for every slider, per-slide ticks = max(0, ceil(tickRate * length /
   (sliderMultiplier * 100)) - 1), totalTicks = per-slide ticks * slides,
   tickSpacing = slideDuration / (per-slide ticks + 1) or 0 without ticks, and
   slideDuration = length / (sliderMultiplier * 100) * beatLength, the beat
   length being the one at the slider's own start time; two equal sliders
   with different beat lengths at their start times get different
   durations *)

\* length / (sliderMultiplier * 100)
BeatsPerSlide(call) ==
    RDiv(RInt(call.length), RMul(call.sliderMultiplier, RInt(100)))

PerSlideTicks(call) ==
    Max(0, RCeil(RMul(RInt(call.sliderTickRate), BeatsPerSlide(call))) - 1)

SlideDurationAt(call, time) ==
    RMul(BeatsPerSlide(call), BeatLengthOfAll(call.timingPoints, time))

DerivedAsStated(obj, call) ==
    /\ obj.ticksPerSlide = PerSlideTicks(call)
    /\ obj.totalTicks = PerSlideTicks(call) * call.slides
    /\ obj.slideDuration = SlideDurationAt(call, obj.time)
    /\ obj.tickSpacing = IF PerSlideTicks(call) = 0 THEN RInt(0)
                         ELSE RDiv(SlideDurationAt(call, obj.time),
                                   RInt(PerSlideTicks(call) + 1))

C31_SliderDerivation ==
    result.fn = "loadBeatmap"
       => /\ \A i \in 1..Len(result.value) :
                DerivedAsStated(result.value[i], args)
          /\ BeatLengthOfAll(args.timingPoints, 500)
                # BeatLengthOfAll(args.timingPoints, 1500)
                => result.value[1].slideDuration
                      # result.value[2].slideDuration

----------------------------------------------------------------------------
(* C32: the combo colour index starts at 0 and changes only on an emitted
   object with the new-combo bit, where it becomes (previous index + 1 +
   comboSkip) mod paletteSize, comboSkip being bits 4-6 of the type; it lies
   in 0 .. paletteSize - 1, paletteSize being the number of colours the chart
   declares, or 4 when it declares none *)

\* the lines for which an object is emitted: at least four fields, no
\* spinner, circle or slider
Emits(line) ==
    /\ line.parts >= 4
    /\ TypeBit(line.type, 3) = 0
    /\ TypeBit(line.type, 0) = 1 \/ TypeBit(line.type, 1) = 1

EmittedLines(lines) == SelectSeq(lines, Emits)

PaletteSize(colourLines) ==
    IF Len(SelectSeq(colourLines, LAMBDA l : l.combo)) = 0 THEN 4
    ELSE Len(SelectSeq(colourLines, LAMBDA l : l.combo))

\* the colour index of the k-th emitted object
RECURSIVE ColourIndexOf(_, _, _)
ColourIndexOf(emitted, k, size) ==
    IF k = 0 THEN 0
    ELSE IF TypeBit(emitted[k].type, 2) = 1
    THEN (ColourIndexOf(emitted, k - 1, size) + 1
             + ((emitted[k].type \div 16) % 8)) % size
    ELSE ColourIndexOf(emitted, k - 1, size)

C32_ComboColourIndex ==
    result.fn = "parse"
       => /\ Len(result.value.hitObjects) = Len(EmittedLines(args.lines))
          /\ \A k \in 1..Len(result.value.hitObjects) :
                /\ result.value.hitObjects[k].comboColorIndex
                      = ColourIndexOf(EmittedLines(args.lines), k,
                                      PaletteSize(args.colours))
                /\ result.value.hitObjects[k].comboColorIndex
                      \in 0..(PaletteSize(args.colours) - 1)

----------------------------------------------------------------------------
(* C33: in every state of a session (after update ticks, inputs, pause,
   resume and retry) the active list holds exactly the objects whose state is
   ACTIVE or SLIDING, each once and in ascending order of their start times;
   every object at or behind the cursor is PENDING and every object before
   the cursor is not PENDING *)

OnActiveList(i) == \E k \in 1..Len(activeObjects) : activeObjects[k] = i

C33_ActiveList ==
    /\ \A i \in Objects :
          OnActiveList(i) <=> hitObjects[i].state \in {"ACTIVE", "SLIDING"}
    /\ \A k \in 1..Len(activeObjects) : activeObjects[k] \in Objects
    /\ \A k, l \in 1..Len(activeObjects) :
          k < l => /\ activeObjects[k] # activeObjects[l]
                   /\ hitObjects[activeObjects[k]].time
                         <= hitObjects[activeObjects[l]].time
    /\ \A i \in Objects :
          i > nextObjectIndex <=> hitObjects[i].state = "PENDING"

\* a second attempt (the slider, not yet started, still carries the ticks of
\* the first) with the slider and a circle on the list and the other circle
\* judged
C33_Witness ==
    /\ currentState = "PLAYING"
    /\ Len(activeObjects) = 2
    /\ \E i \in Sliders : /\ hitObjects[i].state = "ACTIVE"
                          /\ hitObjects[i].ticksHit > 0
                          /\ OnActiveList(i)
    /\ \E i \in Circles : hitObjects[i].state \in Resolved

----------------------------------------------------------------------------
(* C34: the results state is entered at most once per play attempt, by the
   health failure, the grace timer or the 'ended' event of the track,
   whichever comes first; it is never entered while the game is paused; a
   grace timer armed in one attempt never ends a later attempt after a retry
   or a quit *)

EntersResults == currentState # "RESULTS" /\ currentState' = "RESULTS"

ByFailure == ~stats.failed /\ stats'.failed /\ stats'.health <= 0

ByGraceTimer == endTimer /\ ~endTimer'

ByAudioEnded ==
    audioPlaying /\ audioTime = beatmap.audioLength /\ ~audioPlaying'

\* an attempt begins with the countdown
AttemptBegins == currentState # "COUNTDOWN" /\ currentState' = "COUNTDOWN"

C34_ResultsOnce ==
    /\ [][EntersResults
             => /\ currentState = "PLAYING"
                /\ ByFailure \/ ByGraceTimer \/ ByAudioEnded]_vars
    /\ [][currentState = "RESULTS"
             => currentState' \in {"RESULTS", "SONG_SELECT"}]_vars
    /\ [][currentState = "PAUSED" => currentState' # "RESULTS"]_vars
    /\ [][AttemptBegins \/ currentState' = "SONG_SELECT" => ~endTimer']_vars
    /\ [](endTimer => currentState \in {"PLAYING", "PAUSED", "RESULTS"})

\* results entered by the grace timer, the track still playing
C34_Witness ==
    /\ currentState = "RESULTS"
    /\ audioPlaying
    /\ ~endTimer
    /\ AllProcessed

----------------------------------------------------------------------------
(* C35: while the game is PAUSED nothing is judged: frames, pointer and touch
   events and hit keys leave every object, the active list, the cursor of the
   activation and all stats unchanged, and a grace timer that fires during the
   pause does not end the session; a resume continues from exactly that
   state.  Only Retry and Quit, which end the attempt, change it. *)

JudgementUnchanged ==
    /\ hitObjects' = hitObjects
    /\ activeObjects' = activeObjects
    /\ nextObjectIndex' = nextObjectIndex
    /\ stats' = stats
    /\ audioTime' = audioTime

C35_PausedFrozen ==
    [][currentState = "PAUSED"
          => \/ currentState' \in {"COUNTDOWN", "SONG_SELECT"}
             \/ /\ currentState' \in {"PAUSED", "PLAYING"}
                /\ JudgementUnchanged]_vars

\* a pause with the button down while a press on an object of the list would
\* be inside its hit window
C35_Witness ==
    /\ currentState = "PAUSED"
    /\ mouseDown
    /\ \E k \in 1..Len(activeObjects) :
          /\ hitObjects[activeObjects[k]].state = "ACTIVE"
          /\ Abs(audioTime - hitObjects[activeObjects[k]].time)
                <= getHitWindows(beatmap.difficulty.overallDifficulty).hit50

----------------------------------------------------------------------------
(* C36: if the result payload of a session reports fullCombo = true, the
   combo was never reset during the session (no Miss, no broken slider
   tracking): the final combo equals maxCombo *)

\* the step of the Continue button: the payload is posted, then quitToMenu
SendsResults == currentState = "RESULTS" /\ currentState' = "SONG_SELECT"

C36_FullCombo ==
    [][(SendsResults /\ resultPayload(stats).fullCombo)
          => stats.combo = stats.maxCombo]_vars

(* C37: for any interleaving of forced and non-forced loadSongIds calls with
   fetch completions, songIdsLoadPromise is non-null exactly while some
   beatmaps.json fetch is in flight, and a non-forced call made while a fetch
   is in flight starts no additional fetch. *)
StartsFetch == result'.started > result.started

NonForcedCall ==
    args'.fn \in {"getSongIdsMacroValue", "loadSongIds"}

C37_PromiseWhileInFlight ==
    /\ [](songIdsLoadPromise # NoPromise <=> inFlight # {})
    /\ [][(NonForcedCall /\ inFlight # {}) => ~StartsFetch]_vars

(* C38: the result of a launch is applied to the host only for a message
   whose source is the iframe of that launch, whose origin is the origin of
   the game URL, whose type is 'osuComplete' and whose gameId is the id of the
   launch; any other message leaves the host state unchanged; the first
   accepted message, or closing the overlay, removes the listener; so the
   result is applied at most once per launch. *)
HostLaunches == 1..Len(result.launches)

MessageStep == args'.fn = "message"

Acceptable(l, ev) ==
    /\ result.launches[l].listening
    /\ ev.source = l
    /\ ev.origin = "game"
    /\ ev.data.present
    /\ ev.data.type = "osuComplete"
    /\ ev.data.gameId = result.launches[l].gameId

AppliedNow(l) ==
    /\ l \in HostLaunches
    /\ result'.launches[l].applied > result.launches[l].applied

AppliedOnlyIfAcceptable ==
    \A l \in 1..MaxLaunches :
        AppliedNow(l) => MessageStep /\ Acceptable(l, args'.ev)

OtherMessagesIgnored ==
    (MessageStep /\ \A l \in HostLaunches : ~Acceptable(l, args'.ev))
        => result' = result

ListenerRemoved ==
    \A l \in HostLaunches :
        \/ (MessageStep /\ Acceptable(l, args'.ev))
        \/ (args'.fn = "handleOverlayClose"
               /\ result.launches[l].presented
               /\ ~result'.launches[l].presented)
        \/ ~result.launches[l].listening
        => ~result'.launches[l].listening

InputFieldOnlyByResult ==
    result'.inputField # result.inputField => \E l \in HostLaunches : AppliedNow(l)

C38_ResultAppliedOnce ==
    /\ [][AppliedOnlyIfAcceptable]_vars
    /\ [][OtherMessagesIgnored]_vars
    /\ [][ListenerRemoved]_vars
    /\ [][InputFieldOnlyByResult]_vars
    /\ [](\A l \in HostLaunches : result.launches[l].applied <= 1)

C38_Witness ==
    /\ result.fn = "host"
    /\ Len(result.launches) = 2
    /\ result.launches[1].gameId = result.launches[2].gameId
    /\ result.launches[1].applied = 1
    /\ ~result.launches[1].listening
    /\ result.launches[2].listening
    /\ result.launches[2].applied = 0
    /\ args.fn = "message"
    /\ args.ev.source = OtherWindow
    /\ args.ev.data.type = "osuComplete"
    /\ args.ev.data.gameId = result.launches[2].gameId
    /\ result.inputField = "FULL COMBO"

(* C39: deleteBeatmap with the --files option deletes a directory only when
   the basePath of the registry entry resolves to a path strictly inside the
   Osu root directory; for any other basePath (the Osu root itself, a parent
   traversing or absolute path) no file or directory is deleted. *)
SegmentsOf(basePath) ==
    normalizeSegments(<<<<"w">>>> \o splitPath(basePath, <<>>, <<>>), <<>>)

PathSegments(str) == normalizeSegments(splitPath(str, <<>>, <<>>), <<>>)

StrictlyInsideOsu(segs) ==
    /\ Len(segs) > 2
    /\ segs[1] = <<"w">>
    /\ segs[2] = OsuName

Below(segs, dirSegs) ==
    /\ Len(segs) >= Len(dirSegs)
    /\ SubSeq(segs, 1, Len(dirSegs)) = dirSegs

EntryOf(beatmapId) ==
    {k \in 1..Len(result.beatmaps) : result.beatmaps[k].id = beatmapId}

Deleted == result.files \ result'.files

DeletedOnlyInside ==
    Deleted # {} =>
        /\ args'.fn = "deleteBeatmap"
        /\ args'.deleteFiles
        /\ \E k \in EntryOf(args'.beatmapId) :
              /\ \A j \in EntryOf(args'.beatmapId) : k <= j
              /\ StrictlyInsideOsu(SegmentsOf(result.beatmaps[k].basePath))
              /\ \A e \in Deleted :
                    Below(PathSegments(e.path),
                          SegmentsOf(result.beatmaps[k].basePath))

C39_DeletesOnlyInsideOsu == [][DeletedOnlyInside]_vars

C39_Witness ==
    /\ result.fn = "registry"
    /\ args.fn = "deleteBeatmap"
    /\ args.deleteFiles
    /\ Dir(<<<<"w">>, OsuName, <<"s">>>>) \notin result.files
    /\ File(<<<<"w">>, OsuName, <<"s">>, <<"s">>, <<"f">>>>) \notin result.files
    /\ Dir(<<<<"w">>, OsuName>>) \in result.files
    /\ File(<<<<"w">>, Osu2Name, <<"f">>>>) \in result.files
    /\ Len(result.beatmaps) = 1

(* C40: importing a set whose computed id, or whose legacy title-only id with
   equal title and artist, is already registered replaces that entry in place
   and keeps the id the entry had; so, from a registry with unique ids, every
   sequence of imports keeps the ids unique, and importing an archive twice
   gives the same registry as importing it once. *)
ImportStep == args'.fn = "addBeatmap"

TitleOf(archive) == orElse(archive.Title, archive.folderName)

IdOf(archive) ==
    computedId(generateId(<<"a", "-">> \o TitleOf(archive)), archive.setId,
               orElse(archive.Creator, <<"U", "n", "k", "n", "o", "w", "n">>))

RegisteredById(archive) ==
    {k \in 1..Len(result.beatmaps) : result.beatmaps[k].id = IdOf(archive)}

RegisteredByLegacyId(archive) ==
    {k \in 1..Len(result.beatmaps) :
        /\ result.beatmaps[k].id = generateId(TitleOf(archive))
        /\ result.beatmaps[k].title = TitleOf(archive)
        /\ result.beatmaps[k].artist = <<"a">>}

Registered(archive) ==
    RegisteredById(archive) \cup RegisteredByLegacyId(archive)

ReplacedAt(k, archive) ==
    /\ Len(result'.beatmaps) = Len(result.beatmaps)
    /\ result'.beatmaps[k].id = result.beatmaps[k].id
    /\ result'.beatmaps[k].title = TitleOf(archive)
    /\ result'.beatmaps[k].data = archive.data
    /\ \A j \in 1..Len(result.beatmaps) :
          j # k => result'.beatmaps[j] = result.beatmaps[j]

ReplacesInPlace ==
    /\ (ImportStep /\ RegisteredById(args'.archive) # {})
          => \E k \in RegisteredById(args'.archive) :
                 ReplacedAt(k, args'.archive)
    /\ (ImportStep /\ RegisteredById(args'.archive) = {}
                   /\ RegisteredByLegacyId(args'.archive) # {})
          => \E k \in RegisteredByLegacyId(args'.archive) :
                 ReplacedAt(k, args'.archive)

AddsOtherwise ==
    (ImportStep /\ Registered(args'.archive) = {})
        => /\ Len(result'.beatmaps) = Len(result.beatmaps) + 1
           /\ SubSeq(result'.beatmaps, 1, Len(result.beatmaps)) = result.beatmaps
           /\ result'.beatmaps[Len(result'.beatmaps)].id = IdOf(args'.archive)

UniqueIds ==
    \A j, k \in 1..Len(result.beatmaps) :
        result.beatmaps[j].id = result.beatmaps[k].id => j = k

TwiceIsOnce ==
    ImportStep => addBeatmap(result'.beatmaps, args'.archive) = result'.beatmaps

C40_ImportKeepsIds ==
    /\ [][ReplacesInPlace]_vars
    /\ [][AddsOtherwise]_vars
    /\ [][TwiceIsOnce]_vars
    /\ []UniqueIds
====
